---------------------------- MODULE Spec2Model ----------------------------
(***************************************************************************)
(* A model of tools/qa-check.py: the QA run over the content tree          *)
(* (main index page, manifest index.json, one page per content directory), *)
(* the CheckResult / QAReport bookkeeping, the HTML fact extractor, the     *)
(* link and asset resolution, and the auto-fix actions.                     *)
(*                                                                         *)
(* Text is kept as text: names, hrefs and messages are strings, and        *)
(* startswith / in / split / lstrip are computed on their characters.      *)
(***************************************************************************)
EXTENDS Integers, Sequences, FiniteSets, TLC

VARIABLES
    projDir,      \* PROJECTS_DIR exists
    dirs,         \* names of the content directories under PROJECTS_DIR
    pages,        \* dirs -> page file <dir>/index.html
    mainIndex,    \* the page file MAIN_INDEX
    manifest,     \* the file INDEX_JSON
    args,         \* the options of the current run: args.fix, args.verbose
    pc,           \* position of main(): "main", "manifest", "pages", "page", "done", "crashed"
    todo,         \* test_dirs still to visit in check_project_pages
    report,       \* the QAReport of the current run
    exitStatus,   \* what main() returned (-1: nothing yet)
    probes,       \* the URLs http_get was called with in the current run, in order
    answers,      \* the calls of http_get in the current run with the codes their
                  \* GETs received, kept when the run is traced
    traced,       \* whether the calls are kept
    net,          \* what the network answers a call of http_get with
    runs,         \* number of runs started
    start,        \* the filesystem as the current run found it
    hist,         \* one summary per ended run, oldest first
    cr,           \* a CheckResult driven by arbitrary calls
    lastCall,     \* the method last called on cr, and the status before it
    validator,    \* an HTMLStructureValidator being fed
    fed           \* the start tags it was fed, in order

vars == <<projDir, dirs, pages, mainIndex, manifest, args, pc, todo,
          report, exitStatus, probes, answers, traced, net, runs, start, hist,
          cr, lastCall, validator, fed>>

fsVars == <<projDir, dirs, pages, mainIndex, manifest>>
runVars == <<args, pc, todo, report, exitStatus, probes, answers, traced, net, runs,
             start, hist>>
netVars == <<answers, traced, net>>
crVars == <<cr, lastCall>>
parseVars == <<validator, fed>>

-----------------------------------------------------------------------------
(* Bounds of the model *)

MaxCalls == 4      \* calls made on the CheckResult under test
MaxTags == 3       \* start tags fed to the validator under test
MaxRuns == 2       \* consecutive runs of main() on one filesystem
MaxDirs == 2       \* content directories of a single run
MaxRefs == 2       \* links and asset references of a generated page
RepairRuns == 3    \* consecutive runs of main() while a manifest is repaired
MaxEntries == 2    \* entries of a generated manifest

-----------------------------------------------------------------------------
(* Text helpers: Python's str operations, on characters *)

Min(S) == CHOOSE m \in S : \A n \in S : m <= n

\* s.startswith(p)
StartsWith(s, p) == Len(s) >= Len(p) /\ SubSeq(s, 1, Len(p)) = p

\* s.startswith((p1, p2, ...))
StartsWithAny(s, ps) == \E p \in ps : StartsWith(s, p)

\* p in s
Contains(s, p) ==
    \E i \in 1..(Len(s) - Len(p) + 1) : SubSeq(s, i, i + Len(p) - 1) = p

\* s.split(c)[0], c one character
SplitFirst(s, c) ==
    LET at == {i \in 1..Len(s) : SubSeq(s, i, i) = c}
    IN  IF at = {} THEN s ELSE SubSeq(s, 1, Min(at) - 1)

\* s.lstrip(c), c one character
RECURSIVE LStrip(_, _)
LStrip(s, c) ==
    IF Len(s) > 0 /\ SubSeq(s, 1, 1) = c THEN LStrip(SubSeq(s, 2, Len(s)), c) ELSE s

\* s.replace(old, "")
RECURSIVE Remove(_, _)
Remove(s, old) ==
    IF Len(s) < Len(old) \/ Len(old) = 0 THEN s
    ELSE IF StartsWith(s, old) THEN Remove(SubSeq(s, Len(old) + 1, Len(s)), old)
    ELSE SubSeq(s, 1, 1) \o Remove(SubSeq(s, 2, Len(s)), old)

\* The characters the model's texts use, in code point order
Alphabet == "#-./0123456789:?ABCDEFGHIJKLMNOPQRSTUVWXYZ_abcdefghijklmnopqrstuvwxyz"
UpperCase == "ABCDEFGHIJKLMNOPQRSTUVWXYZ"
LowerCase == "abcdefghijklmnopqrstuvwxyz"
Digits == "0123456789"

\* The position of character c in text a (0: not in it)
IndexIn(a, c) ==
    LET at == {i \in 1..Len(a) : SubSeq(a, i, i) = c}
    IN  IF at = {} THEN 0 ELSE Min(at)

IsDigit(c) == IndexIn(Digits, c) > 0

\* s.lower()
RECURSIVE Lower(_)
Lower(s) ==
    IF Len(s) = 0 THEN s
    ELSE LET c == SubSeq(s, 1, 1)
             u == IndexIn(UpperCase, c)
         IN  (IF u > 0 THEN SubSeq(LowerCase, u, u) ELSE c) \o Lower(SubSeq(s, 2, Len(s)))

\* a < b for str: by code points, a proper prefix first
RECURSIVE StrLess(_, _)
StrLess(a, b) ==
    IF Len(b) = 0 THEN FALSE
    ELSE IF Len(a) = 0 THEN TRUE
    ELSE LET x == IndexIn(Alphabet, SubSeq(a, 1, 1))
             y == IndexIn(Alphabet, SubSeq(b, 1, 1))
         IN  IF x # y THEN x < y
             ELSE StrLess(SubSeq(a, 2, Len(a)), SubSeq(b, 2, Len(b)))

\* int(t) for a run of digits
RECURSIVE ToInt(_)
ToInt(t) ==
    IF Len(t) = 0 THEN 0
    ELSE 10 * ToInt(SubSeq(t, 1, Len(t) - 1)) + (IndexIn(Digits, SubSeq(t, Len(t), Len(t))) - 1)

\* s.split(c), c one character
RECURSIVE Split(_, _)
Split(s, c) ==
    LET at == IndexIn(s, c)
    IN  IF at = 0 THEN <<s>>
        ELSE <<SubSeq(s, 1, at - 1)>> \o Split(SubSeq(s, at + 1, Len(s)), c)

\* The permutations of a finite set, as sequences
Perms(S) ==
    {p \in [1..Cardinality(S) -> S] : \A i, j \in 1..Cardinality(S) : i # j => p[i] # p[j]}

-----------------------------------------------------------------------------
(* CheckResult (qa-check.py 149-180) *)

Statuses == {"PASS", "FAIL", "WARN", "FIXED"}
Levels == {"PASS", "FAIL", "WARN", "FIXED", "INFO"}

\* CheckResult.__init__
NewResult(name, category) ==
    [name |-> name, category |-> category, status |-> "PASS", details |-> <<>>]

fail_DetailOnly(r, msg) == [r EXCEPT !.details = Append(@, <<"FAIL", msg>>)]

fail(r, msg) ==
    [r EXCEPT !.status = "FAIL", !.details = Append(@, <<"FAIL", msg>>)]

warn_Always(r, msg) ==
    [r EXCEPT !.status = "WARN", !.details = Append(@, <<"WARN", msg>>)]

warn(r, msg) ==
    [r EXCEPT !.status = IF @ = "PASS" THEN "WARN" ELSE @,
              !.details = Append(@, <<"WARN", msg>>)]

ok(r, msg) == [r EXCEPT !.details = Append(@, <<"PASS", msg>>)]

fixed_KeepsFail(r, msg) ==
    [r EXCEPT !.status = IF @ = "FAIL" THEN @ ELSE "FIXED",
              !.details = Append(@, <<"FIXED", msg>>)]

fixed(r, msg) ==
    [r EXCEPT !.status = "FIXED", !.details = Append(@, <<"FIXED", msg>>)]

info(r, msg) == [r EXCEPT !.details = Append(@, <<"INFO", msg>>)]

\* CheckResult.passed
ResultPassed(r) == r.status \in {"PASS", "FIXED", "WARN"}

\* The detail records of r at one level
DetailsAt(r, level) == {i \in 1..Len(r.details) : r.details[i][1] = level}

-----------------------------------------------------------------------------
(* HTMLStructureValidator (qa-check.py 83-144) *)

\* A start tag with the attributes the validator reads. hasHref / hasSrc say
\* whether the attribute is in attrs_dict; rel is attrs_dict.get("rel", "").
\* srcIsText: src has a value; an attribute written without value is None
Tag(tag, hasHref, href, rel, hasSrc, src) ==
    [tag |-> tag, hasHref |-> hasHref, href |-> href, rel |-> rel,
     hasSrc |-> hasSrc, src |-> src, srcIsText |-> TRUE]

Anchor(href) == Tag("a", TRUE, href, "", FALSE, "")
Plain(tag) == Tag(tag, FALSE, "", "", FALSE, "")
Stylesheet(href) == Tag("link", TRUE, href, "stylesheet", FALSE, "")
Script(src) == Tag("script", FALSE, "", "", TRUE, src)
Img(src) == Tag("img", FALSE, "", "", TRUE, src)

\* <img src>, <script src>: the parser reports the attribute with value None
NoValueSrc(tag) == [Tag(tag, FALSE, "", "", TRUE, "") EXCEPT !.srcIsText = FALSE]

\* HTMLStructureValidator.__init__
NewValidator ==
    [has_doctype |-> FALSE, has_html |-> FALSE, has_head |-> FALSE,
     has_body |-> FALSE, has_title |-> FALSE, links |-> <<>>, asset_refs |-> <<>>]

\* The schemes whose hrefs are not collected (line 124)
SkippedPrefixes == {"#", "mailto:", "javascript:", "tel:"}

collect_link_NoTel(v, t) ==
    IF t.tag = "a" /\ t.hasHref /\ t.href # ""
       /\ ~StartsWithAny(t.href, {"#", "mailto:", "javascript:"})
    THEN [v EXCEPT !.links = Append(@, t.href)]
    ELSE v

\* lines 121-125
collect_link(v, t) ==
    IF t.tag = "a" /\ t.hasHref /\ t.href # ""
       /\ ~StartsWithAny(t.href, SkippedPrefixes)
    THEN [v EXCEPT !.links = Append(@, t.href)]
    ELSE v

\* lines 127-135; a reference is kept with its type, its text, and whether
\* it is text at all
collect_asset(v, t) ==
    IF t.tag = "link" /\ Lower(t.rel) = "stylesheet"
    THEN IF t.hasHref /\ t.href # ""
         THEN [v EXCEPT !.asset_refs = Append(@, <<"css", t.href, TRUE>>)]
         ELSE v
    ELSE IF t.tag = "script" /\ t.hasSrc
    THEN [v EXCEPT !.asset_refs = Append(@, <<"js", t.src, t.srcIsText>>)]
    ELSE IF t.tag = "img" /\ t.hasSrc
    THEN [v EXCEPT !.asset_refs = Append(@, <<"img", t.src, t.srcIsText>>)]
    ELSE v

\* lines 106-135
handle_starttag(v, t) ==
    LET v1 == [v EXCEPT !.has_html = @ \/ t.tag = "html",
                        !.has_head = @ \/ t.tag = "head",
                        !.has_body = @ \/ t.tag = "body",
                        !.has_title = @ \/ t.tag = "title"]
    IN  collect_asset(collect_link(v1, t), t)

RECURSIVE FeedTags(_, _)
FeedTags(v, tags) ==
    IF tags = <<>> THEN v ELSE FeedTags(handle_starttag(v, Head(tags)), Tail(tags))

\* A page file. kind: "zero" (0 bytes), "blank" (only white space) or "text";
\* doctype: the raw text matches <!DOCTYPE\s+html; tags: the start tags the
\* parser reports, up to the point where it raises when parseError is set.
PageFile(exists, kind, doctype, tags, parseError) ==
    [exists |-> exists, kind |-> kind, doctype |-> doctype, tags |-> tags,
     parseError |-> parseError]

NoPage == PageFile(FALSE, "zero", FALSE, <<>>, FALSE)

\* validator.feed(content) (lines 100-104): the facts, and whether it raised
Feed(page) ==
    [v |-> FeedTags([NewValidator EXCEPT !.has_doctype = page.doctype], page.tags),
     raised |-> page.parseError]

-----------------------------------------------------------------------------
(* _natural_sort_key (qa-check.py 872-874) and the two directory orders *)

\* The length of the longest prefix of s made of digits (isDigit) or of
\* non-digits
RECURSIVE RunLen(_, _)
RunLen(s, isDigit) ==
    IF Len(s) = 0 \/ IsDigit(SubSeq(s, 1, 1)) # isDigit THEN 0
    ELSE 1 + RunLen(SubSeq(s, 2, Len(s)), isDigit)

\* [int(t) if t.isdigit() else t.lower() for t in re.split(r'(\d+)', s)]:
\* texts and numbers alternate, a text first and a text last
RECURSIVE KeyFrom(_, _)
KeyFrom(s, isDigit) ==
    LET n == RunLen(s, isDigit)
        t == SubSeq(s, 1, n)
        rest == SubSeq(s, n + 1, Len(s))
    IN  IF isDigit
        THEN <<[isNum |-> TRUE, n |-> ToInt(t), t |-> ""]>> \o KeyFrom(rest, FALSE)
        ELSE <<[isNum |-> FALSE, n |-> 0, t |-> Lower(t)]>>
             \o (IF Len(rest) = 0 THEN <<>> ELSE KeyFrom(rest, TRUE))

lexical_sort_key(s) == <<[isNum |-> FALSE, n |-> 0, t |-> s]>>

_natural_sort_key(s) == KeyFrom(s, FALSE)

\* a < b for the key lists
RECURSIVE KeyLess(_, _)
KeyLess(a, b) ==
    IF Len(b) = 0 THEN FALSE
    ELSE IF Len(a) = 0 THEN TRUE
    ELSE LET x == Head(a)
             y == Head(b)
         IN  IF x.isNum /\ y.isNum /\ x.n # y.n THEN x.n < y.n
             ELSE IF ~x.isNum /\ ~y.isNum /\ x.t # y.t THEN StrLess(x.t, y.t)
             ELSE KeyLess(Tail(a), Tail(b))

\* sorted(S, key=_natural_sort_key): every order sorted() can return (equal
\* keys keep the order iterdir() happened to list them in)
NaturalOrders(S) ==
    {p \in Perms(S) : \A i, j \in 1..Len(p) :
        i < j => ~KeyLess(_natural_sort_key(p[j]), _natural_sort_key(p[i]))}

\* sorted(S) of paths with one parent: by name, as text
LexicalOrder(S) ==
    CHOOSE p \in Perms(S) : \A i, j \in 1..Len(p) : i < j => StrLess(p[i], p[j])

-----------------------------------------------------------------------------
(* Configuration (qa-check.py 70-76) *)

BASE_URL == "http://clawdbot-web/clawdbot/"
PROJECTS_URL == BASE_URL \o "projects/"
PUBLIC_DIR == "public/clawdbot"
PROJECTS_DIR == PUBLIC_DIR \o "/projects"
INDEX_JSON == PROJECTS_DIR \o "/index.json"
MAIN_INDEX == PUBLIC_DIR \o "/index.html"

-----------------------------------------------------------------------------
(* The filesystem the run reads and writes, below the workspace root *)

\* The filesystem as one value
FS == [projDir |-> projDir, dirs |-> dirs, pages |-> pages,
       mainIndex |-> mainIndex, manifest |-> manifest]

\* Files that no run writes: what local links and assets may point to
StaticFiles == {PUBLIC_DIR \o "/style.css"}

\* str(path) of a list of path segments
RECURSIVE Join(_)
Join(segs) ==
    IF Len(segs) = 0 THEN ""
    ELSE IF Len(segs) = 1 THEN segs[1]
    ELSE segs[1] \o "/" \o Join(Tail(segs))

IsDirPath(f, path) ==
    \/ path \in {"", "public", PUBLIC_DIR}
    \/ f.projDir /\ path = PROJECTS_DIR
    \/ f.projDir /\ \E d \in f.dirs : path = PROJECTS_DIR \o "/" \o d

IsFilePath(f, path) ==
    \/ path \in StaticFiles
    \/ f.mainIndex.exists /\ path = MAIN_INDEX
    \/ f.projDir /\ f.manifest.exists /\ path = INDEX_JSON
    \/ f.projDir /\ \E d \in f.dirs :
          f.pages[d].exists /\ path = PROJECTS_DIR \o "/" \o d \o "/index.html"

\* Name resolution from the workspace root: "" and "." stay, ".." leaves a
\* directory that must exist, a name enters a directory that must exist
RECURSIVE Walk(_, _, _)
Walk(f, cur, rest) ==
    IF rest = <<>> THEN [found |-> TRUE, segs |-> cur]
    ELSE LET seg == Head(rest)
         IN  IF seg \in {"", "."} THEN Walk(f, cur, Tail(rest))
             ELSE IF ~IsDirPath(f, Join(cur)) THEN [found |-> FALSE, segs |-> cur]
             ELSE IF seg = ".."
             THEN IF cur = <<>> THEN [found |-> FALSE, segs |-> cur]
                  ELSE Walk(f, SubSeq(cur, 1, Len(cur) - 1), Tail(rest))
             ELSE Walk(f, Append(cur, seg), Tail(rest))

\* The file or directory a relative path names ("?": nothing)
Resolved(f, path) ==
    LET w == Walk(f, <<>>, Split(path, "/"))
    IN  IF w.found THEN Join(w.segs) ELSE "?"

\* Path(path).exists()
PathExists(f, path) ==
    LET r == Resolved(f, path) IN IsDirPath(f, r) \/ IsFilePath(f, r)

\* Path(path).is_dir()
PathIsDir(f, path) == IsDirPath(f, Resolved(f, path))

\* Path(path).stat().st_size == 0, for a path that exists
SizeIsZero(f, path) ==
    LET r == Resolved(f, path)
    IN  \/ r = MAIN_INDEX /\ f.mainIndex.kind = "zero"
        \/ r = INDEX_JSON /\ f.manifest.kind = "zero"
        \/ \E d \in f.dirs :
              r = PROJECTS_DIR \o "/" \o d \o "/index.html" /\ f.pages[d].kind = "zero"

-----------------------------------------------------------------------------
(* The manifest text and json.loads / json.dumps on it *)

\* One JSON value of the manifest's top level.  kind: "obj" (an object),
\* "str", "num"; for an object: whether it has "name", and its "file":
\* fileKind "absent", "str" (the text file) or "num" (a number other than 0)
Item(kind, hasName, name, fileKind, file) ==
    [kind |-> kind, hasName |-> hasName, name |-> name, fileKind |-> fileKind,
     file |-> file]

Entry(name, file) == Item("obj", TRUE, name, "str", file)

\* The manifest file.  kind: "zero" (0 bytes), "blank" (only white space),
\* "text"; the text is  [ item , item ,  ]  with the opening bracket (lb), the
\* closing bracket (rb) and a comma after the last item (tc) each there or not
ManifestFile(exists, kind, lb, rb, tc, items) ==
    [exists |-> exists, kind |-> kind, lb |-> lb, rb |-> rb, tc |-> tc,
     items |-> items]

NoManifest == ManifestFile(FALSE, "zero", FALSE, FALSE, FALSE, <<>>)

\* json.loads(text): valid says whether it parsed, isList whether the root
\* is a list, data the list
json_loads(m) ==
    IF m.lb /\ m.rb /\ ~m.tc
    THEN [valid |-> TRUE, isList |-> TRUE, data |-> m.items]
    ELSE IF ~m.lb /\ ~m.rb /\ ~m.tc /\ Len(m.items) = 1
    THEN [valid |-> TRUE, isList |-> FALSE, data |-> <<>>]
    ELSE [valid |-> FALSE, isList |-> FALSE, data |-> <<>>]

\* INDEX_JSON.write_text(json.dumps(data, ...) + "\n")
json_dump(data) == ManifestFile(TRUE, "text", TRUE, TRUE, FALSE, data)

\* The patched text of _fix_broken_json (lines 583-592): a comma right before
\* a closing bracket goes, then the brackets are put around the text
patched_text(m) ==
    [m EXCEPT !.tc = IF m.rb THEN FALSE ELSE @, !.lb = TRUE, !.rb = TRUE]

-----------------------------------------------------------------------------
(* http_get / url_accessible (qa-check.py 232-249) *)

\* What ends one call of http_get: a status code, or -1 for a transport
\* error or timeout
Codes == {200, 404, -1}

\* The status of a redirect: urlopen (line 235) follows it with a GET for
\* the URL the redirect names
Moved == 302

\* What the network answers to one call of http_get: the codes of the GETs
\* the call makes, the last one ending it
DirectReplies == {<<c>> : c \in Codes}
RedirectReplies == {<<Moved, 200>>, <<Moved, 404>>}

\* The URL a redirect from url names
Location(url) == url \o "/"

\* A check in progress: the CheckResult r, the URLs of the GETs made so far
\* (urls), the calls of http_get so far with the codes their GETs received
\* (calls), the counters of the link and asset loops, and whether an
\* exception left the check (raised).  The k-th call that reaches the network
\* is answered by ans[k] (200 beyond the answers given).
Answer(ans, k) == IF k \in DOMAIN ans THEN ans[k] ELSE <<200>>

\* urllib refuses a URL without a scheme before anything is sent
Requestable(url) == ~StartsWith(url, "//")

\* The calls of the check that reached the network
Asked(st) == Cardinality({i \in 1..Len(st.calls) : st.calls[i][2] # <<>>})

\* The codes the GETs of http_get(url) receive
Reply(st, url, ans) == IF Requestable(url) THEN Answer(ans, Asked(st) + 1) ELSE <<>>

\* The code a call returns whose GETs received reply: the last status, or -1
\* when nothing was sent
Returned(reply) == IF reply = <<>> THEN -1 ELSE reply[Len(reply)]

\* http_get(url): the code it returns
http_get(st, url, ans) == Returned(Reply(st, url, ans))

\* url_accessible(url) (lines 246-249): the code is 200
url_accessible(st, url, ans) == http_get(st, url, ans) = 200

\* the check after http_get(url)
Requested(st, url, ans) ==
    LET reply == Reply(st, url, ans)
    IN  [st EXCEPT !.urls = @ \o [i \in 1..Len(reply) |-> IF i = 1 THEN url ELSE Location(url)],
                   !.calls = Append(@, <<url, reply>>)]

-----------------------------------------------------------------------------
(* The sub-checks of a page (qa-check.py 425-533) *)

StructStep_QuietUnlessVerbose(r, present, label, verbose) ==
    IF ~verbose THEN r
    ELSE IF present THEN ok(r, "Has " \o label)
    ELSE warn(r, "Missing " \o label)

StructStep(r, present, label, verbose) ==
    IF present THEN (IF verbose THEN ok(r, "Has " \o label) ELSE r)
    ELSE warn(r, "Missing " \o label)

\* _check_html_structure (lines 425-438)
_check_html_structure(r, v, verbose) ==
    LET r1 == StructStep(r, v.has_doctype, "DOCTYPE declaration", verbose)
        r2 == StructStep(r1, v.has_html, "<html> tag", verbose)
        r3 == StructStep(r2, v.has_head, "<head> tag", verbose)
    IN  StructStep(r3, v.has_body, "<body> tag", verbose)

\* line 452
IsSchemeAbsolute(ref) == StartsWithAny(ref, {"http://", "https://", "//"})

\* line 454: the link is taken for one of the site's own
IsOwnLink(href) == Contains(href, "clawdbot-web") \/ Contains(href, "pulpouplatform.com")

\* lines 466-475 and 516-522: the path a local reference is looked up at
LocalTarget(ref, page_dir) ==
    LET target == IF StartsWith(ref, "/") THEN PUBLIC_DIR \o "/" \o LStrip(ref, "/")
                  ELSE page_dir \o "/" \o ref
    IN  SplitFirst(SplitFirst(target, "?"), "#")

\* line 477
LinkTargetExists(f, target) ==
    PathExists(f, target) \/ (PathIsDir(f, target) /\ PathExists(f, target \o "/index.html"))

\* One turn of the loop of lines 450-483
LinkStep(st, href, page_dir, verbose, f, ans) ==
    IF IsSchemeAbsolute(href)
    THEN IF ~IsOwnLink(href) THEN st
         ELSE LET good == url_accessible(st, href, ans)
                  s1 == Requested(st, href, ans)
              IN  IF good
                  THEN [s1 EXCEPT !.r = IF verbose THEN ok(@, "Link OK: " \o href) ELSE @,
                                  !.checked = @ + 1]
                  ELSE [s1 EXCEPT !.r = fail(@, "Broken link: " \o href),
                                  !.broken = @ + 1, !.checked = @ + 1]
    ELSE IF LinkTargetExists(f, LocalTarget(href, page_dir))
    THEN [st EXCEPT !.r = IF verbose THEN ok(@, "Link OK: " \o href) ELSE @,
                    !.checked = @ + 1]
    ELSE [st EXCEPT !.r = fail(@, "Broken internal link: " \o href),
                    !.broken = @ + 1, !.checked = @ + 1]

RECURSIVE LinkLoop(_, _, _, _, _, _)
LinkLoop(st, links, page_dir, verbose, f, ans) ==
    IF links = <<>> THEN st
    ELSE LinkLoop(LinkStep(st, Head(links), page_dir, verbose, f, ans),
                  Tail(links), page_dir, verbose, f, ans)

\* _check_internal_links (lines 441-486)
_check_internal_links(st, v, page_dir, verbose, f, ans) ==
    IF v.links = <<>>
    THEN [st EXCEPT !.r = IF verbose THEN info(@, "No internal links found") ELSE @]
    ELSE LET s0 == [st EXCEPT !.checked = 0, !.broken = 0]
             s1 == LinkLoop(s0, v.links, page_dir, verbose, f, ans)
         IN  IF s1.checked > 0 /\ s1.broken = 0
             THEN [s1 EXCEPT !.r = ok(@, "All internal links valid")]
             ELSE s1

\* One turn of the loop of lines 498-530.  ref.startswith raises
\* AttributeError for a reference that is None
AssetStep(st, asset, page_dir, verbose, f, ans) ==
    LET asset_type == asset[1]
        ref == asset[2]
        label == "(" \o asset_type \o "): " \o ref
    IN  IF ~asset[3] THEN [st EXCEPT !.raised = TRUE]
        ELSE IF StartsWithAny(ref, {"data:", "blob:"}) THEN st
        ELSE IF IsSchemeAbsolute(ref)
        THEN LET url == IF StartsWith(ref, "//") THEN "http:" \o ref ELSE ref
                 good == url_accessible(st, url, ans)
                 s1 == Requested(st, url, ans)
             IN  IF good
                 THEN [s1 EXCEPT !.r = IF verbose THEN ok(@, "Asset OK " \o label) ELSE @,
                                 !.checked = @ + 1]
                 ELSE [s1 EXCEPT !.r = warn(@, "Unreachable asset " \o label),
                                 !.broken = @ + 1, !.checked = @ + 1]
        ELSE IF PathExists(f, LocalTarget(ref, page_dir))
        THEN [st EXCEPT !.r = IF verbose THEN ok(@, "Asset OK " \o label) ELSE @,
                        !.checked = @ + 1]
        ELSE [st EXCEPT !.r = fail(@, "Missing local asset " \o label),
                        !.broken = @ + 1, !.checked = @ + 1]

RECURSIVE AssetLoop(_, _, _, _, _, _)
AssetLoop(st, assets, page_dir, verbose, f, ans) ==
    IF assets = <<>> \/ st.raised THEN st
    ELSE AssetLoop(AssetStep(st, Head(assets), page_dir, verbose, f, ans),
                   Tail(assets), page_dir, verbose, f, ans)

\* _check_assets (lines 489-533)
_check_assets(st, v, page_dir, verbose, f, ans) ==
    IF v.asset_refs = <<>>
    THEN [st EXCEPT !.r = IF verbose THEN info(@, "No asset references found") ELSE @]
    ELSE LET s0 == [st EXCEPT !.checked = 0, !.broken = 0]
             s1 == AssetLoop(s0, v.asset_refs, page_dir, verbose, f, ans)
         IN  IF s1.raised THEN s1
             ELSE IF s1.checked > 0 /\ s1.broken = 0
             THEN [s1 EXCEPT !.r = ok(@, "All assets verified")]
             ELSE s1

\* A check that starts: report.add(CheckResult(name, category))
Started(name, category) ==
    [r |-> NewResult(name, category), urls |-> <<>>, calls |-> <<>>, checked |-> 0, broken |-> 0,
     raised |-> FALSE]

-----------------------------------------------------------------------------
(* check_main_index (qa-check.py 255-287) *)

\* ans answers the requests the check makes, in order
check_main_index(f, verbose, ans) ==
    LET st == Started("Main index.html", "structure")
        page == f.mainIndex
    IN  IF ~page.exists
        THEN [st EXCEPT !.r = fail(@, "File not found: " \o MAIN_INDEX)]
        ELSE IF page.kind # "text"
        THEN [st EXCEPT !.r = fail(@, "Main index.html is empty")]
        ELSE LET fd == Feed(page)
                 r1 == ok(st.r, "File exists")
                 r2 == IF fd.raised THEN warn(r1, "HTML parse error") ELSE r1
                 r3 == _check_html_structure(r2, fd.v, verbose)
                 s3 == [st EXCEPT !.r = r3]
                 code == http_get(s3, BASE_URL, ans)
                 s4 == Requested(s3, BASE_URL, ans)
             IN  IF code = 200
                 THEN [s4 EXCEPT !.r = ok(@, "HTTP 200 from " \o BASE_URL)]
                 ELSE [s4 EXCEPT !.r = fail(@, "HTTP error from " \o BASE_URL)]

-----------------------------------------------------------------------------
(* The auto-fix functions (qa-check.py 539-627) *)

\* The entry _fix_create_index_json and _fix_add_index_entry write for a
\* directory (lines 545-553, 564-572)
PlaceholderEntry_NoName(dir_name) ==
    Item("obj", FALSE, "", "str", dir_name \o "/index.html")

PlaceholderEntry(dir_name) ==
    Entry("Test " \o Remove(dir_name, "test-") \o ": TBD", dir_name \o "/index.html")

RECURSIVE PlaceholderEntries(_)
PlaceholderEntries(order) ==
    IF order = <<>> THEN <<>>
    ELSE <<PlaceholderEntry(Head(order))>> \o PlaceholderEntries(Tail(order))

\* A manifest check in progress: the CheckResult r, the manifest file and
\* whether PROJECTS_DIR exists, the parsed list data, the fix actions counted,
\* and whether an exception left the check
ManifestCheck(r, f) ==
    [r |-> r, manifest |-> f.manifest, projDir |-> f.projDir, data |-> <<>>,
     fixes |-> 0, crashed |-> FALSE]

\* _fix_create_index_json (lines 539-559); order: the directories as
\* sorted(..., key=_natural_sort_key) lists them
_fix_create_index_json_NoWrite(mc, order) ==
    [mc EXCEPT !.r = fixed(@, "Created index.json"), !.fixes = @ + 1]

_fix_create_index_json(mc, order) ==
    LET entries == IF mc.projDir THEN PlaceholderEntries(order) ELSE <<>>
    IN  [mc EXCEPT !.projDir = TRUE,
                   !.manifest = json_dump(entries),
                   !.r = fixed(@, "Created index.json"),
                   !.fixes = @ + 1]

\* _fix_add_index_entry (lines 562-577)
_fix_add_index_entry(mc, dir_name) ==
    LET data == Append(mc.data, PlaceholderEntry(dir_name))
    IN  [mc EXCEPT !.data = data,
                   !.manifest = json_dump(data),
                   !.r = fixed(@, "Added '" \o dir_name \o "' to index.json"),
                   !.fixes = @ + 1]

_fix_broken_json_WritesPatched(mc) ==
    LET again == json_loads(patched_text(mc.manifest))
    IN  [mc EXCEPT !.manifest = patched_text(mc.manifest),
                   !.r = IF again.valid THEN fixed(@, "Repaired JSON")
                         ELSE fail(@, "Could not auto-repair JSON")]

\* _fix_broken_json (lines 580-600)
_fix_broken_json(mc) ==
    LET again == json_loads(patched_text(mc.manifest))
    IN  IF again.valid
        THEN [mc EXCEPT !.manifest = json_dump(again.data),
                        !.r = fixed(@, "Repaired JSON")]
        ELSE [mc EXCEPT !.r = fail(@, "Could not auto-repair JSON")]

\* The page _fix_create_placeholder writes (lines 606-623)
PlaceholderPage ==
    PageFile(TRUE, "text", TRUE,
             <<Plain("html"), Plain("head"), Plain("meta"), Plain("meta"),
               Plain("title"), Plain("style"), Plain("body"), Plain("h1"),
               Plain("p"), Plain("p"), Anchor("../")>>,
             FALSE)

\* A page check in progress: the check st, the page file, the fix actions
PageCheck_Placeholder(st, page) == [st |-> st, page |-> PlaceholderPage, fixes |-> 0]

PageCheck(st, page) == [st |-> st, page |-> page, fixes |-> 0]

\* _fix_create_placeholder (lines 603-627)
_fix_create_placeholder_NoDoctype(pchk, file_path) ==
    [pchk EXCEPT !.page = [PlaceholderPage EXCEPT !.doctype = FALSE],
                 !.st.r = fixed(@, "Created placeholder " \o file_path),
                 !.fixes = @ + 1]

_fix_create_placeholder(pchk, file_path) ==
    [pchk EXCEPT !.page = PlaceholderPage,
                 !.st.r = fixed(@, "Created placeholder " \o file_path),
                 !.fixes = @ + 1]

-----------------------------------------------------------------------------
(* check_index_json (qa-check.py 290-358) *)

\* entry.get('name', '?')
NameOf(entry) == IF entry.hasName THEN entry.name ELSE "?"

\* lines 329-331
MissingFields(r, entry) ==
    LET r1 == IF entry.hasName THEN r ELSE warn(r, "Entry (?): missing 'name'")
    IN  IF entry.fileKind # "absent" THEN r1
        ELSE warn(r1, "Entry (" \o NameOf(entry) \o "): missing 'file'")

\* lines 333-342, for the text file_ref
ReferencedFile(r, entry, f, verbose) ==
    LET file_ref == entry.file
        file_path == PROJECTS_DIR \o "/" \o file_ref
    IN  IF file_ref = "" THEN r
        ELSE IF ~PathExists(f, file_path)
        THEN fail(r, "Entry '" \o NameOf(entry) \o "': file not found: " \o file_ref)
        ELSE IF SizeIsZero(f, file_path)
        THEN fail(r, "Entry '" \o NameOf(entry) \o "': file is empty: " \o file_ref)
        ELSE IF verbose
        THEN ok(r, "Entry '" \o NameOf(entry) \o "': " \o file_ref \o " OK")
        ELSE r

\* One turn of the loop of lines 324-342.  PROJECTS_DIR / file_ref raises
\* TypeError for a file that is no text
EntryStep(mc, entry, f, verbose) ==
    IF entry.kind # "obj" THEN [mc EXCEPT !.r = fail(@, "Entry is not an object")]
    ELSE LET r1 == MissingFields(mc.r, entry)
         IN  IF entry.fileKind = "num" THEN [mc EXCEPT !.r = r1, !.crashed = TRUE]
             ELSE [mc EXCEPT !.r = ReferencedFile(r1, entry, f, verbose)]

RECURSIVE EntryLoop(_, _, _, _)
EntryLoop(mc, entries, f, verbose) ==
    IF entries = <<>> \/ mc.crashed THEN mc
    ELSE EntryLoop(EntryStep(mc, Head(entries), f, verbose), Tail(entries), f, verbose)

\* lines 346-350: the set indexed_dirs, defined when every entry has .get
\* and every file is text
IndexedDirs_WholeFile(data) ==
    {data[i].file : i \in {j \in 1..Len(data) : Contains(data[j].file, "/")}}

IndexedDirs(data) ==
    {Split(data[i].file, "/")[1] :
        i \in {j \in 1..Len(data) : Contains(data[j].file, "/")}}

\* lines 347-349 raise for an entry without .get (AttributeError) and for a
\* file that "/" cannot be looked up in (TypeError)
IndexedDirsRaises(data) ==
    \E i \in 1..Len(data) : data[i].kind # "obj" \/ data[i].fileKind = "num"

OrphanStep_AlwaysFixes(mc, d, indexed, fix) ==
    IF d \in indexed THEN mc
    ELSE _fix_add_index_entry(
            [mc EXCEPT !.r = warn(@, "Directory '" \o d
                                     \o "' exists but has no index.json entry")], d)

\* One turn of the loop of lines 352-356; indexed is computed before the loop
OrphanStep(mc, d, indexed, fix) ==
    IF d \in indexed THEN mc
    ELSE LET m1 == [mc EXCEPT !.r = warn(@, "Directory '" \o d
                                            \o "' exists but has no index.json entry")]
         IN  IF fix THEN _fix_add_index_entry(m1, d) ELSE m1

RECURSIVE OrphanLoop(_, _, _, _)
OrphanLoop(mc, ds, indexed, fix) ==
    IF ds = <<>> THEN mc
    ELSE OrphanLoop(OrphanStep(mc, Head(ds), indexed, fix), Tail(ds), indexed, fix)

\* lines 344-356
CrossCheck(mc, f, fix) ==
    IF ~f.projDir THEN mc
    ELSE IF IndexedDirsRaises(mc.data) THEN [mc EXCEPT !.crashed = TRUE]
    ELSE OrphanLoop(mc, LexicalOrder(f.dirs), IndexedDirs(mc.data), fix)

\* check_index_json; order: the directories in natural sort order, for
\* _fix_create_index_json
check_index_json(f, verbose, fix, order) ==
    LET mc == ManifestCheck(NewResult("index.json validation", "data"), f)
        m == f.manifest
        parsed == json_loads(m)
    IN  IF ~(f.projDir /\ m.exists)
        THEN LET m1 == [mc EXCEPT !.r = fail(@, "File not found: " \o INDEX_JSON)]
             IN  IF fix THEN _fix_create_index_json(m1, order) ELSE m1
        ELSE IF m.kind # "text"
        THEN LET m1 == [mc EXCEPT !.r = fail(@, "index.json is empty")]
             IN  IF fix THEN _fix_create_index_json(m1, order) ELSE m1
        ELSE IF ~parsed.valid
        THEN LET m1 == [mc EXCEPT !.r = fail(@, "Invalid JSON")]
             IN  IF fix THEN _fix_broken_json(m1) ELSE m1
        ELSE IF ~parsed.isList
        THEN [mc EXCEPT !.r = fail(@, "index.json root is not an array")]
        ELSE LET m1 == [mc EXCEPT !.r = ok(@, "Valid JSON array"), !.data = parsed.data]
                 m2 == EntryLoop(m1, parsed.data, f, verbose)
             IN  IF m2.crashed THEN m2 ELSE CrossCheck(m2, f, fix)

-----------------------------------------------------------------------------
(* check_project_pages (qa-check.py 361-422) *)

\* One turn of the loop of lines 376-420, for the directory d
check_page(f, d, verbose, fix, ans) ==
    LET test_dir == PROJECTS_DIR \o "/" \o d
        index_file == test_dir \o "/index.html"
        page == f.pages[d]
        pchk == PageCheck(Started("Page: " \o d, "page"), page)
    IN  IF ~page.exists
        THEN LET p1 == [pchk EXCEPT !.st.r = fail(@, "index.html does not exist")]
             IN  IF fix THEN _fix_create_placeholder(p1, index_file) ELSE p1
        ELSE IF page.kind # "text"
        THEN LET p1 == [pchk EXCEPT !.st.r = fail(@, "index.html is empty (0 bytes)")]
             IN  IF fix THEN _fix_create_placeholder(p1, index_file) ELSE p1
        ELSE LET fd == Feed(page)
                 r1 == ok(pchk.st.r, "File exists")
             IN  IF fd.raised
                 THEN [pchk EXCEPT !.st.r = warn(r1, "HTML parse error")]
                 ELSE LET r2 == _check_html_structure(r1, fd.v, verbose)
                          s2 == [pchk.st EXCEPT !.r = r2]
                          page_url == PROJECTS_URL \o d \o "/index.html"
                          code == http_get(s2, page_url, ans)
                          s3 == Requested(s2, page_url, ans)
                          s4 == IF code = 200
                                THEN [s3 EXCEPT !.r = ok(@, "HTTP 200 OK")]
                                ELSE [s3 EXCEPT !.r = fail(@, "HTTP error from " \o page_url)]
                          s5 == _check_internal_links(s4, fd.v, test_dir, verbose, f, ans)
                          s6 == _check_assets(s5, fd.v, test_dir, verbose, f, ans)
                      IN  [pchk EXCEPT !.st = s6]

-----------------------------------------------------------------------------
(* QAReport (qa-check.py 183-226) *)

\* QAReport.__init__
NewReport == [results |-> <<>>, fixes_applied |-> 0]

\* QAReport.add
add(rep, result) == [rep EXCEPT !.results = Append(@, result)]

CountStatus(rep, status) ==
    Cardinality({i \in 1..Len(rep.results) : rep.results[i].status = status})

total(rep) == Len(rep.results)
passed(rep) == CountStatus(rep, "PASS")
failed_NotPassed(rep) == Len(rep.results) - CountStatus(rep, "PASS")

failed(rep) == CountStatus(rep, "FAIL")
warnings(rep) == CountStatus(rep, "WARN")
fixedCount(rep) == CountStatus(rep, "FIXED")

\* QAReport.all_passed
all_passed(rep) == failed(rep) = 0

\* main, line 959
exit_code(rep) == IF all_passed(rep) THEN 0 ELSE 1

-----------------------------------------------------------------------------
(* main (qa-check.py 880-959): one action per check *)

\* The number of calls of http_get a check makes does not depend on the answers
MainRequests == Asked(check_main_index(FS, args.verbose, <<>>))
PageRequests(d) == Asked(check_page(FS, d, args.verbose, args.fix, <<>>).st)

\* What is kept of a run that ended: its options, the filesystem it found,
\* the exit status, whether an exception ended it, the manifest check's result,
\* the names of the checks that ended FIXED, and the fix-action counter
Summary(exit, crashed, rep) ==
    [args |-> args, start |-> start, exit |-> exit, crashed |-> crashed,
     manifest |-> rep.results[2],
     fixedChecks |-> {rep.results[i].name :
                        i \in {j \in 1..Len(rep.results) : rep.results[j].status = "FIXED"}},
     fixes_applied |-> rep.fixes_applied]

\* The calls of http_get of a check, after those kept before
Kept(before, calls) == IF traced THEN before \o calls ELSE before

\* lines 906-910
CheckMainIndex ==
    /\ pc = "main"
    /\ \E ans \in [1..MainRequests -> net] :
          LET st == check_main_index(FS, args.verbose, ans)
          IN  /\ report' = add(report, st.r)
              /\ probes' = probes \o st.urls
              /\ answers' = Kept(answers, st.calls)
    /\ pc' = "manifest"
    /\ UNCHANGED <<fsVars, args, todo, exitStatus, traced, net, runs, start, hist,
                   crVars, parseVars>>

\* lines 912-916.  An exception that leaves check_index_json leaves main too:
\* the run ends without a summary, and the interpreter exits with status 1
CheckIndexJson ==
    /\ pc = "manifest"
    /\ \E order \in NaturalOrders(dirs) :
          LET mc == check_index_json(FS, args.verbose, args.fix, order)
              rep == [add(report, mc.r) EXCEPT !.fixes_applied = @ + mc.fixes]
          IN  /\ report' = rep
              /\ manifest' = mc.manifest
              /\ projDir' = mc.projDir
              /\ pc' = IF mc.crashed THEN "crashed" ELSE "pages"
              /\ exitStatus' = IF mc.crashed THEN 1 ELSE exitStatus
              /\ hist' = IF mc.crashed THEN Append(hist, Summary(1, TRUE, rep)) ELSE hist
    /\ UNCHANGED <<dirs, pages, mainIndex, args, todo, probes, netVars, runs, start,
                   crVars, parseVars>>

\* check_project_pages, lines 363-374: the directory is missing, or its
\* directories are listed in natural sort order
ListPages ==
    /\ pc = "pages"
    /\ IF ~projDir
       THEN /\ report' = add(report, fail(NewResult("Projects directory", "structure"),
                                          "Directory not found: " \o PROJECTS_DIR))
            /\ todo' = <<>>
       ELSE /\ todo' \in NaturalOrders(dirs)
            /\ report' = report
    /\ pc' = "page"
    /\ UNCHANGED <<fsVars, args, exitStatus, probes, netVars, runs, start, hist,
                   crVars, parseVars>>

\* check_project_pages, lines 376-420: the next directory's page.  An
\* exception that leaves _check_assets leaves main too
CheckPage ==
    /\ pc = "page"
    /\ todo # <<>>
    /\ LET d == Head(todo)
       IN  \E ans \in [1..PageRequests(d) -> net] :
              LET pchk == check_page(FS, d, args.verbose, args.fix, ans)
                  rep == [add(report, pchk.st.r) EXCEPT !.fixes_applied = @ + pchk.fixes]
              IN  /\ report' = rep
                  /\ pages' = [pages EXCEPT ![d] = pchk.page]
                  /\ probes' = probes \o pchk.st.urls
                  /\ answers' = Kept(answers, pchk.st.calls)
                  /\ pc' = IF pchk.st.raised THEN "crashed" ELSE pc
                  /\ exitStatus' = IF pchk.st.raised THEN 1 ELSE exitStatus
                  /\ hist' = IF pchk.st.raised THEN Append(hist, Summary(1, TRUE, rep))
                             ELSE hist
    /\ todo' = Tail(todo)
    /\ UNCHANGED <<projDir, dirs, mainIndex, manifest, args, traced, net, runs, start,
                   crVars, parseVars>>

\* lines 926-959: the summary and the exit code
Finish ==
    /\ pc = "page"
    /\ todo = <<>>
    /\ exitStatus' = exit_code(report)
    /\ pc' = "done"
    /\ hist' = Append(hist, Summary(exit_code(report), FALSE, report))
    /\ UNCHANGED <<fsVars, args, todo, report, probes, netVars, runs, start,
                   crVars, parseVars>>

\* The tool is run again on the filesystem the last run left, with options
\* from argSet, up to limit runs in all
StartRun(limit, argSet) ==
    /\ pc \in {"done", "crashed"}
    /\ runs < limit
    /\ args' \in argSet
    /\ pc' = "main"
    /\ todo' = <<>>
    /\ report' = NewReport
    /\ exitStatus' = -1
    /\ probes' = <<>>
    /\ answers' = <<>>
    /\ runs' = runs + 1
    /\ start' = FS
    /\ UNCHANGED <<fsVars, traced, net, hist, crVars, parseVars>>

AllArgs == [fix : BOOLEAN, verbose : BOOLEAN]

NewRun == StartRun(MaxRuns, AllArgs)

-----------------------------------------------------------------------------
(* The initial states *)

\* The CheckResult and the validator under test, idle
IdleInit ==
    /\ cr = NewResult("check", "general")
    /\ lastCall = <<"none", "PASS">>
    /\ validator = NewValidator
    /\ fed = <<>>

\* main, lines 894-902: a run starts, with options from argSet; keep tells
\* whether the calls of http_get are kept, replies what the network answers
RunInitKeeping(argSet, keep, replies) ==
    /\ args \in argSet
    /\ pc = "main"
    /\ todo = <<>>
    /\ report = NewReport
    /\ exitStatus = -1
    /\ probes = <<>>
    /\ answers = <<>>
    /\ traced = keep
    /\ net = replies
    /\ runs = 1
    /\ hist = <<>>

RunInit(argSet) == RunInitKeeping(argSet, FALSE, DirectReplies)

\* A filesystem: PROJECTS_DIR missing with everything below it, or there with
\* directories, pages and a manifest from the given sets
FSInit(dirSets, pageSet, mainSet, manifestSet) ==
    /\ mainIndex \in mainSet
    /\ \/ /\ projDir = FALSE
          /\ dirs = {}
          /\ pages = [d \in {} |-> NoPage]
          /\ manifest = NoManifest
       \/ /\ projDir = TRUE
          /\ dirs \in dirSets
          /\ pages \in [dirs -> pageSet]
          /\ manifest \in manifestSet
    /\ start = FS

\* No run: the run variables while a component is exercised alone
RunIdle ==
    /\ args = [fix |-> FALSE, verbose |-> FALSE]
    /\ pc = "idle"
    /\ todo = <<>>
    /\ report = NewReport
    /\ exitStatus = -1
    /\ probes = <<>>
    /\ answers = <<>>
    /\ traced = FALSE
    /\ net = DirectReplies
    /\ runs = 0
    /\ hist = <<>>

-----------------------------------------------------------------------------
(* The files the specifications start from *)

DirNames == {"item-1", "item-2", "item-10"}

PageOf(d) == d \o "/index.html"

\* Pages
GoodPage == PageFile(TRUE, "text", TRUE, <<Plain("html"), Plain("head"), Plain("body")>>, FALSE)
ZeroPage == PageFile(TRUE, "zero", FALSE, <<>>, FALSE)
BlankPage == PageFile(TRUE, "blank", FALSE, <<>>, FALSE)

\* Manifest entries
MissingNameEntry == Item("obj", FALSE, "", "str", PageOf("item-2"))
MissingFileEntry == Item("obj", TRUE, "B", "absent", "")
GhostEntry == Entry("G", "ghost/index.html")
NumberFileEntry == Item("obj", TRUE, "N", "num", "")
TextItem == Item("str", FALSE, "", "absent", "")
One == Entry("One", PageOf("item-1"))
Two == Entry("Two", PageOf("item-2"))
Ten == Entry("Ten", PageOf("item-10"))

ArrayOf(items) == ManifestFile(TRUE, "text", TRUE, TRUE, FALSE, items)

\* Manifests: missing, empty, arrays (complete, partial, with entries that
\* lack a field, name a missing file, are no object or have a file that is
\* no text), a root that is no array, malformed texts
ManifestSamples ==
    { NoManifest,
      ManifestFile(TRUE, "zero", FALSE, FALSE, FALSE, <<>>),
      ManifestFile(TRUE, "blank", FALSE, FALSE, FALSE, <<>>),
      ArrayOf(<<>>),
      ArrayOf(<<Ten>>),
      ArrayOf(<<Ten, Two>>),
      ArrayOf(<<Ten, One, Two>>),
      ArrayOf(<<MissingNameEntry, MissingFileEntry>>),
      ArrayOf(<<GhostEntry>>),
      ArrayOf(<<Two, TextItem>>),
      ArrayOf(<<NumberFileEntry>>),
      ManifestFile(TRUE, "text", FALSE, FALSE, FALSE, <<Two>>),
      ManifestFile(TRUE, "text", TRUE, TRUE, TRUE, <<Two>>),
      ManifestFile(TRUE, "text", FALSE, FALSE, FALSE, <<Ten, Two>>),
      ManifestFile(TRUE, "text", TRUE, FALSE, TRUE, <<Two>>),
      ManifestFile(TRUE, "text", FALSE, FALSE, FALSE, <<TextItem, TextItem>>) }

-----------------------------------------------------------------------------
(* Spec: consecutive runs of the tool on one filesystem *)

\* Manifests of the filesystems that are checked again: empty, complete,
\* without entries, and one that ends the run with an exception
RerunManifests ==
    { ManifestFile(TRUE, "zero", FALSE, FALSE, FALSE, <<>>),
      ArrayOf(<<>>),
      ArrayOf(<<Ten, Two>>),
      ArrayOf(<<NumberFileEntry>>) }

Init ==
    /\ FSInit(SUBSET {"item-2", "item-10"}, {NoPage, ZeroPage, BlankPage, GoodPage},
              {GoodPage}, RerunManifests)
    /\ RunInit(AllArgs)
    /\ IdleInit

Next ==
    \/ CheckMainIndex
    \/ CheckIndexJson
    \/ ListPages
    \/ CheckPage
    \/ Finish
    \/ NewRun

Spec == Init /\ [][Next]_vars

-----------------------------------------------------------------------------
(* SpecOnce: one run, on up to MaxDirs of the directories *)

InitOnce ==
    /\ FSInit({S \in SUBSET DirNames : Cardinality(S) <= MaxDirs},
              {NoPage, ZeroPage, GoodPage}, {GoodPage}, ManifestSamples)
    /\ RunInit(AllArgs)
    /\ IdleInit

NextOnce ==
    \/ CheckMainIndex
    \/ CheckIndexJson
    \/ ListPages
    \/ CheckPage
    \/ Finish

SpecOnce == InitOnce /\ [][NextOnce]_vars

-----------------------------------------------------------------------------
(* SpecPage: one run over generated pages *)

StructureTags == {"html", "head", "body"}

\* The start tags of the structural elements in S, in document order
TagsOf(S) ==
    (IF "html" \in S THEN <<Plain("html")>> ELSE <<>>)
    \o (IF "head" \in S THEN <<Plain("head")>> ELSE <<>>)
    \o (IF "body" \in S THEN <<Plain("body")>> ELSE <<>>)

\* Links: to a file that is not there, to the directory above (with a query
\* and a fragment), to a file below the site root, to a foreign host, to a
\* foreign host with an own host's name in the query, to the site itself,
\* and to an own host without a scheme
LinkSamples ==
    {"missing.html", "../?tab=1#top", "/style.css",
     "https://unrelated.example.com/x",
     "https://unrelated.example.com/x?from=clawdbot-web",
     "http://clawdbot-web/clawdbot/",
     "//pulpouplatform.com/a"}

\* Asset references: inline data, a file below the site root, a file that is
\* not there, a file on another host, and a src without value
AssetSamples ==
    {Img("data:image/png"), Stylesheet("/style.css"), Script("app.js"),
     Img("https://cdn.example.com/a.png"), NoValueSrc("img")}

RefSamples == {Anchor(h) : h \in LinkSamples} \cup AssetSamples

\* Up to MaxRefs references, in document order
RefSeqs == UNION {[1..n -> RefSamples] : n \in 0..MaxRefs}

GenPage(doctype, S, refs, parseError) ==
    PageFile(TRUE, "text", doctype, TagsOf(S) \o refs, parseError)

\* Pages with any of the structural elements, parsed to the end or not
StructurePages ==
    {GenPage(dt, S, <<>>, pe) : dt \in BOOLEAN, S \in SUBSET StructureTags, pe \in BOOLEAN}

\* Pages with references: complete ones, parsed to the end or not, and
\* ones without doctype and head
RefPages ==
    {GenPage(TRUE, StructureTags, refs, pe) : refs \in RefSeqs, pe \in BOOLEAN}
    \cup {GenPage(FALSE, {"html", "body"}, refs, FALSE) : refs \in RefSeqs}

\* One content directory with a generated page below a good main index, or
\* no content directory and a generated main index
InitPage ==
    /\ projDir = TRUE
    /\ \/ /\ dirs = {"item-1"}
          /\ pages \in [dirs -> StructurePages \cup RefPages]
          /\ mainIndex = GoodPage
          /\ manifest = ArrayOf(<<One>>)
       \/ /\ dirs = {}
          /\ pages = [d \in {} |-> NoPage]
          /\ mainIndex \in StructurePages \cup {NoPage, ZeroPage, BlankPage}
          /\ manifest = ArrayOf(<<>>)
    /\ start = FS
    /\ RunInit([fix : {FALSE}, verbose : BOOLEAN])
    /\ IdleInit

SpecPage == InitPage /\ [][NextOnce]_vars

-----------------------------------------------------------------------------
(* SpecProbe: one run over one page whose references are requested, on a
   network that redirects too, the calls of http_get kept *)

OwnLink == "http://clawdbot-web/clawdbot/about.html"
BareOwnLink == "//pulpouplatform.com/a"
CdnImage == "https://cdn.example.com/a.png"

\* Links to the own hosts with and without a scheme and to a page that is
\* not there, and an asset on another host
ProbeSamples ==
    {Anchor(OwnLink), Anchor(BareOwnLink), Anchor("missing.html"),
     Img(CdnImage)}

ProbePages ==
    {GenPage(TRUE, StructureTags, refs, FALSE) :
        refs \in UNION {[1..n -> ProbeSamples] : n \in 0..MaxRefs}}

InitProbe ==
    /\ projDir = TRUE
    /\ dirs = {"item-1"}
    /\ pages \in [dirs -> ProbePages]
    /\ mainIndex = GoodPage
    /\ manifest = ArrayOf(<<One>>)
    /\ start = FS
    /\ RunInitKeeping([fix : {FALSE}, verbose : BOOLEAN], TRUE,
                      DirectReplies \cup RedirectReplies)
    /\ IdleInit

SpecProbe == InitProbe /\ [][NextOnce]_vars

-----------------------------------------------------------------------------
(* SpecRepair: an empty manifest, checked up to RepairRuns times *)

EmptyManifests ==
    { ManifestFile(TRUE, "zero", FALSE, FALSE, FALSE, <<>>),
      ManifestFile(TRUE, "blank", FALSE, FALSE, FALSE, <<>>) }

InitRepair ==
    /\ projDir = TRUE
    /\ dirs \in SUBSET {"item-2", "item-10"}
    /\ pages \in [dirs -> {NoPage, GoodPage}]
    /\ mainIndex = GoodPage
    /\ manifest \in EmptyManifests
    /\ start = FS
    /\ RunInit(AllArgs)
    /\ IdleInit

\* The next run chooses --fix anew
Rerun == StartRun(RepairRuns, [fix : BOOLEAN, verbose : {args.verbose}])

NextRepair ==
    \/ CheckMainIndex
    \/ CheckIndexJson
    \/ ListPages
    \/ CheckPage
    \/ Finish
    \/ Rerun

SpecRepair == InitRepair /\ [][NextRepair]_vars

-----------------------------------------------------------------------------
(* SpecConverge: runs with --fix, one after the other, on one filesystem *)

\* Manifests with a defect a fix is there for: absent, empty, without
\* entries, incomplete, and malformed texts (a comma before the closing
\* bracket, no brackets, and a comma at the end without closing bracket)
FixableManifests ==
    { NoManifest,
      ManifestFile(TRUE, "zero", FALSE, FALSE, FALSE, <<>>),
      ArrayOf(<<>>),
      ArrayOf(<<Two>>),
      ManifestFile(TRUE, "text", TRUE, TRUE, TRUE, <<Two>>),
      ManifestFile(TRUE, "text", FALSE, FALSE, FALSE, <<Ten, Two>>),
      ManifestFile(TRUE, "text", TRUE, FALSE, TRUE, <<Two>>) }

\* A page with defects of every kind: no doctype, no head, a broken link, and
\* a local asset that is not there
DefectivePage ==
    GenPage(FALSE, {"html", "body"}, <<Anchor("missing.html"), Script("app.js")>>, FALSE)

InitConverge ==
    /\ FSInit(SUBSET {"item-2", "item-10"}, {NoPage, BlankPage, GoodPage, DefectivePage},
              {GoodPage}, FixableManifests)
    /\ RunInit([fix : {TRUE}, verbose : BOOLEAN])
    /\ IdleInit

\* The next run has --fix too
FixAgain == StartRun(MaxRuns, [fix : {TRUE}, verbose : {args.verbose}])

NextConverge ==
    \/ CheckMainIndex
    \/ CheckIndexJson
    \/ ListPages
    \/ CheckPage
    \/ Finish
    \/ FixAgain

SpecConverge == InitConverge /\ [][NextConverge]_vars

-----------------------------------------------------------------------------
(* SpecEntries: one run over generated manifests *)

\* Entries: complete, without name, without file, without both, naming a
\* file that is not there, with a file that is no text, and no object
EntrySamples ==
    {Two, MissingNameEntry, MissingFileEntry, Item("obj", FALSE, "", "absent", ""),
     GhostEntry, NumberFileEntry, TextItem}

\* Arrays of up to MaxEntries entries
GenManifests == {ArrayOf(items) : items \in UNION {[1..n -> EntrySamples] : n \in 0..MaxEntries}}

\* The directory item-2, its page missing, of 0 bytes or good, below a
\* generated manifest
InitEntries ==
    /\ projDir = TRUE
    /\ dirs = {"item-2"}
    /\ pages \in [dirs -> {NoPage, ZeroPage, GoodPage}]
    /\ mainIndex = GoodPage
    /\ manifest \in GenManifests
    /\ start = FS
    /\ RunInit(AllArgs)
    /\ IdleInit

SpecEntries == InitEntries /\ [][NextOnce]_vars

-----------------------------------------------------------------------------
(* SpecCR: one CheckResult under arbitrary calls *)

\* No files: the filesystem while a component is exercised alone
FSIdle ==
    /\ projDir = FALSE
    /\ dirs = {}
    /\ pages = [d \in {} |-> NoPage]
    /\ mainIndex = NoPage
    /\ manifest = NoManifest
    /\ start = FS

InitCR ==
    /\ FSIdle
    /\ RunIdle
    /\ IdleInit

\* One call of a method of cr, remembered with the status it found
Call(method, result) ==
    /\ pc = "idle"
    /\ Len(cr.details) < MaxCalls
    /\ cr' = result
    /\ lastCall' = <<method, cr.status>>
    /\ UNCHANGED <<fsVars, runVars, parseVars>>

CallFail == Call("fail", fail(cr, "m"))
CallWarn == Call("warn", warn(cr, "m"))
CallOk == Call("ok", ok(cr, "m"))
CallFixed == Call("fixed", fixed(cr, "m"))
CallInfo == Call("info", info(cr, "m"))

NextCR ==
    \/ CallFail
    \/ CallWarn
    \/ CallOk
    \/ CallFixed
    \/ CallInfo

SpecCR == InitCR /\ [][NextCR]_vars

-----------------------------------------------------------------------------
(* SpecLife: the CheckResults of a report, from report.add to the return of
   their checks *)

\* The checks, by the names of their results
LifeChecks == <<"Main index.html", "index.json validation", "Page: item-1">>

InitLife ==
    /\ FSIdle
    /\ RunIdle
    /\ IdleInit

\* The result the check in progress holds a reference to
Current_First(rep) == 1

Current(rep) == Len(rep.results)

\* Details emitted so far, over all results
Emitted(rep) ==
    Cardinality({<<i, k>> \in (1..Len(rep.results)) \X (1..MaxCalls) :
                    k <= Len(rep.results[i].details)})

\* result = report.add(CheckResult(name, category)) (lines 257, 292, 377):
\* the result is in the report from its creation on
BeginCheck ==
    /\ pc = "idle"
    /\ Len(report.results) < Len(LifeChecks)
    /\ report' = add(report, NewResult(LifeChecks[Len(report.results) + 1], "general"))
    /\ pc' = "check"
    /\ UNCHANGED <<fsVars, args, todo, exitStatus, probes, netVars, runs, start, hist,
                   crVars, parseVars>>

\* The check in progress calls a method of its result
Emit(method, r) ==
    /\ pc = "check"
    /\ Emitted(report) < MaxCalls
    /\ report' = [report EXCEPT !.results[Current(report)] = r]
    /\ lastCall' = <<method, report.results[Current(report)].status>>
    /\ UNCHANGED <<fsVars, args, pc, todo, exitStatus, probes, netVars, runs, start, hist,
                   cr, parseVars>>

EmitFail == Emit("fail", fail(report.results[Current(report)], "m"))
EmitWarn == Emit("warn", warn(report.results[Current(report)], "m"))
EmitOk == Emit("ok", ok(report.results[Current(report)], "m"))
EmitFixed == Emit("fixed", fixed(report.results[Current(report)], "m"))
EmitInfo == Emit("info", info(report.results[Current(report)], "m"))

\* The check returns
EndCheck ==
    /\ pc = "check"
    /\ pc' = "idle"
    /\ UNCHANGED <<fsVars, args, todo, report, exitStatus, probes, netVars, runs, start,
                   hist, crVars, parseVars>>

NextLife ==
    \/ BeginCheck
    \/ EmitFail
    \/ EmitWarn
    \/ EmitOk
    \/ EmitFixed
    \/ EmitInfo
    \/ EndCheck

SpecLife == InitLife /\ [][NextLife]_vars

-----------------------------------------------------------------------------
(* SpecParse: a validator fed start tags *)

\* hrefs: the four kinds that are not collected, in their exact spelling and
\* near misses of it, and links of every class
HrefSamples ==
    {"", "#top", "mailto:a@b.com", "javascript:void(0)", "tel:123",
     "page.html", "top#", "Mailto:a@b.com", "telephone.html",
     "https://unrelated.example.com/x"}

TagSamples ==
    {Anchor(h) : h \in HrefSamples}
    \cup {Plain("a"), Plain("html"), Plain("body"), Stylesheet("#a.css"),
          Img("mailto.png"), Tag("link", TRUE, "tel:1", "", FALSE, "")}

InitParse ==
    /\ FSIdle
    /\ RunIdle
    /\ IdleInit

\* The parser reports one more start tag
HandleStartTag ==
    /\ pc = "idle"
    /\ Len(fed) < MaxTags
    /\ \E t \in TagSamples :
          /\ validator' = handle_starttag(validator, t)
          /\ fed' = Append(fed, t)
    /\ UNCHANGED <<fsVars, runVars, crVars>>

SpecParse == InitParse /\ [][HandleStartTag]_vars

-----------------------------------------------------------------------------
(* C2: the status after each CheckResult call *)

\* C2: after fail() the status is FAIL; after warn() it is WARN if it was
\* PASS and what it was otherwise; after fixed() it is FIXED, whatever it
\* was; after ok() and info() it is what it was.
C2_StatusEscalation ==
    LET method == lastCall[1]
        before == lastCall[2]
    IN  /\ method = "fail" => cr.status = "FAIL"
        /\ method = "warn" => cr.status = (IF before = "PASS" THEN "WARN" ELSE before)
        /\ method = "fixed" => cr.status = "FIXED"
        /\ method \in {"ok", "info"} => cr.status = before
        /\ method # "none" => cr.details[Len(cr.details)][1] =
              (CASE method = "fail" -> "FAIL" [] method = "warn" -> "WARN"
                 [] method = "ok" -> "PASS" [] method = "fixed" -> "FIXED"
                 [] method = "info" -> "INFO")

\* fixed() found FAIL and left FIXED, after a warn() that found FAIL and left it
C2_Witness ==
    /\ Len(cr.details) >= 3
    /\ lastCall = <<"fixed", "FAIL">>
    /\ cr.status = "FIXED"
    /\ cr.details[Len(cr.details) - 1][1] = "WARN"
    /\ cr.details[Len(cr.details) - 2][1] = "FAIL"

-----------------------------------------------------------------------------
(* C9: the collected links *)

\* The hrefs the claim describes: of the anchors among tags, in order, the
\* non-empty ones that do not begin with one of the four prefixes
RECURSIVE ExpectedLinks(_)
ExpectedLinks(tags) ==
    IF tags = <<>> THEN <<>>
    ELSE LET t == Head(tags)
             keep == /\ t.tag = "a"
                     /\ t.hasHref
                     /\ t.href # ""
                     /\ \A p \in {"#", "mailto:", "javascript:", "tel:"} :
                           ~(Len(t.href) >= Len(p) /\ SubSeq(t.href, 1, Len(p)) = p)
         IN  (IF keep THEN <<t.href>> ELSE <<>>) \o ExpectedLinks(Tail(tags))

\* C9: the link list holds, in document order, exactly the non-empty hrefs
\* of anchor start tags that do not begin with "#", "mailto:", "javascript:"
\* or "tel:"; so no href of these four kinds is in it.
C9_CollectedLinks ==
    /\ validator.links = ExpectedLinks(fed)
    /\ \A i \in 1..Len(validator.links) :
          ~StartsWithAny(validator.links[i], {"#", "mailto:", "javascript:", "tel:"})

\* Anchors of the skipped kinds were fed between two that were collected
C9_Witness ==
    /\ Len(fed) = 3
    /\ fed[1] = Anchor("page.html")
    /\ fed[2] = Anchor("tel:123")
    /\ fed[3] = Anchor("https://unrelated.example.com/x")
    /\ validator.links = <<"page.html", "https://unrelated.example.com/x">>

-----------------------------------------------------------------------------
(* C1: all_passed and the exit status *)

\* The run has ended: with its summary, or with an exception
RunEnded == pc \in {"done", "crashed"}

NoResultFailed == \A i \in 1..Len(report.results) : report.results[i].status # "FAIL"

\* C1: at the end of every run, all_passed is true exactly when no result
\* has status FAIL, and the exit status is 0 exactly when all_passed is true,
\* 1 otherwise.
C1_ExitStatus ==
    RunEnded =>
        /\ all_passed(report) <=> NoResultFailed
        /\ exitStatus = (IF all_passed(report) THEN 0 ELSE 1)

-----------------------------------------------------------------------------
(* C6: every check runs *)

ResultsNamed(name) == {i \in 1..Len(report.results) : report.results[i].name = name}

\* C6: whatever the filesystem and the manifest hold, no exception ends the
\* run, and at its end the report has exactly one result of the main index
\* check, one of the manifest check, and one of each content directory's page.
C6_ChecksIsolated ==
    /\ pc # "crashed"
    /\ pc = "done" =>
          /\ Cardinality(ResultsNamed("Main index.html")) = 1
          /\ Cardinality(ResultsNamed("index.json validation")) = 1
          /\ \A d \in dirs : Cardinality(ResultsNamed("Page: " \o d)) = 1

-----------------------------------------------------------------------------
(* C5: the manifest check of a well-formed manifest *)

\* The manifest the run found parses as an array of objects that each have
\* "name" and a "file" that names an existing file of size other than 0
WellFormedManifest ==
    LET m == start.manifest
    IN  /\ start.projDir /\ m.exists /\ m.kind = "text"
        /\ m.lb /\ m.rb /\ ~m.tc
        /\ \A i \in 1..Len(m.items) :
              LET e == m.items[i]
              IN  /\ e.kind = "obj" /\ e.hasName /\ e.fileKind = "str"
                  /\ PathExists(start, PROJECTS_DIR \o "/" \o e.file)
                  /\ ~SizeIsZero(start, PROJECTS_DIR \o "/" \o e.file)

\* The content directories that are the first path segment of no entry's file
Unreferenced ==
    {d \in start.dirs :
        \A i \in 1..Len(start.manifest.items) :
            ~StartsWith(start.manifest.items[i].file, d \o "/")}

ManifestChecked == Len(report.results) >= 2

\* C5 as stated: the manifest check of a well-formed manifest adds no FAIL
\* and no WARN detail, whatever content directories exist.
C5_NoFailNoWarn ==
    (WellFormedManifest /\ ManifestChecked) =>
        /\ DetailsAt(report.results[2], "FAIL") = {}
        /\ DetailsAt(report.results[2], "WARN") = {}

\* C5, amended: the manifest check of a well-formed manifest adds no FAIL
\* detail, and one WARN detail for each content directory that no entry's file
\* lies in: none when every directory is referenced.
C5_WarnPerUnreferenced ==
    (WellFormedManifest /\ ManifestChecked) =>
        /\ DetailsAt(report.results[2], "FAIL") = {}
        /\ Cardinality(DetailsAt(report.results[2], "WARN")) = Cardinality(Unreferenced)
        /\ \A d \in Unreferenced :
              \E i \in DetailsAt(report.results[2], "WARN") :
                 report.results[2].details[i][2] =
                    "Directory '" \o d \o "' exists but has no index.json entry"

\* Two directories, both referenced by the manifest: the check has run and
\* has left PASS
C5_Witness ==
    /\ WellFormedManifest /\ ManifestChecked
    /\ Cardinality(start.dirs) = 2
    /\ Len(start.manifest.items) = 2
    /\ Unreferenced = {}
    /\ report.results[2].status = "PASS"

-----------------------------------------------------------------------------
(* C7: the order of the results *)

\* a sorts before b when digit runs count as numbers and letters ignore case
RECURSIVE NumberAwareLess(_, _)
NumberAwareLess(a, b) ==
    IF Len(b) = 0 THEN FALSE
    ELSE IF Len(a) = 0 THEN TRUE
    ELSE LET da == RunLen(a, TRUE)
             db == RunLen(b, TRUE)
         IN  IF da > 0 /\ db > 0
             THEN LET x == ToInt(SubSeq(a, 1, da))
                      y == ToInt(SubSeq(b, 1, db))
                  IN  IF x # y THEN x < y
                      ELSE NumberAwareLess(SubSeq(a, da + 1, Len(a)), SubSeq(b, db + 1, Len(b)))
             ELSE LET x == Lower(SubSeq(a, 1, 1))
                      y == Lower(SubSeq(b, 1, 1))
                  IN  IF x # y THEN StrLess(x, y)
                      ELSE NumberAwareLess(SubSeq(a, 2, Len(a)), SubSeq(b, 2, Len(b)))

ResultNames == [i \in 1..Len(report.results) |-> report.results[i].name]

IsPrefix(s, t) == Len(s) <= Len(t) /\ SubSeq(t, 1, Len(s)) = s

\* The page results of the directories S, in natural sort order
PageNamesInOrder(S) ==
    {[i \in 1..Len(p) |-> "Page: " \o p[i]] :
        p \in {q \in Perms(S) : \A i, j \in 1..Len(q) :
                  i < j => ~NumberAwareLess(q[j], q[i])}}

\* C7 as stated: the result sequence is the main index result, the manifest
\* result, then one page result per content directory in natural sort order:
\* at every moment the beginning of it, at the end of the run all of it.
C7_Order ==
    \E tail \in PageNamesInOrder(dirs) :
        LET whole == <<"Main index.html", "index.json validation">> \o tail
        IN  /\ IsPrefix(ResultNames, whole)
            /\ pc = "done" => ResultNames = whole

\* C7, amended: after the manifest result comes one page result per content
\* directory in natural sort order, or, when the directory of the content
\* directories does not exist, the single result "Projects directory".
C7_OrderOrNoDirectory ==
    \E tail \in (IF projDir THEN PageNamesInOrder(dirs) ELSE {<<"Projects directory">>}) :
        LET whole == <<"Main index.html", "index.json validation">> \o tail
        IN  /\ IsPrefix(ResultNames, whole)
            /\ pc = "done" => ResultNames = whole

\* item-2 was checked before item-10
C7_Witness ==
    /\ pc = "done"
    /\ dirs = {"item-2", "item-10"}
    /\ ResultNames = <<"Main index.html", "index.json validation",
                       "Page: item-2", "Page: item-10">>

-----------------------------------------------------------------------------
(* C8: links to other hosts *)

\* The host of a scheme-absolute or protocol-relative reference
HostOf(ref) ==
    LET at == Min({i \in 1..(Len(ref) - 1) : SubSeq(ref, i, i + 1) = "//"})
        rest == SubSeq(ref, at + 2, Len(ref))
    IN  SplitFirst(SplitFirst(SplitFirst(rest, "/"), "?"), "#")

\* The link names a host, and the host is none of the site's own
IsForeignLink(href) ==
    /\ \E p \in {"http://", "https://", "//"} : StartsWith(href, p)
    /\ ~Contains(HostOf(href), "clawdbot-web")
    /\ ~Contains(HostOf(href), "pulpouplatform.com")

\* The links of page, as the parser reports them
LinksOf(page) == {page.tags[i].href : i \in {j \in 1..Len(page.tags) : page.tags[j].tag = "a"}}

DetailsOf(name) ==
    UNION {{report.results[i].details[k] : k \in 1..Len(report.results[i].details)} :
              i \in ResultsNamed(name)}

\* C8: a link to an unrelated host is never requested and never adds a FAIL
\* detail to the page's result, whatever its path or query contains.
C8_ForeignNeverProbed ==
    \A d \in dirs : \A href \in LinksOf(start.pages[d]) :
        IsForeignLink(href) =>
            /\ \A k \in 1..Len(probes) : probes[k] # href
            /\ <<"FAIL", "Broken link: " \o href>> \notin DetailsOf("Page: " \o d)
            /\ <<"FAIL", "Broken internal link: " \o href>> \notin DetailsOf("Page: " \o d)

-----------------------------------------------------------------------------
(* C10: structural defects *)

StructureLabels == {"DOCTYPE declaration", "<html> tag", "<head> tag", "<body> tag"}

\* The page file lacks the element of this label
Lacks(page, label) ==
    IF label = "DOCTYPE declaration" THEN ~page.doctype
    ELSE \A i \in 1..Len(page.tags) : "<" \o page.tags[i].tag \o "> tag" # label

\* The details of r at level "WARN" or "FAIL" that are no "Missing <element>"
\* warning
OtherDefects(r) ==
    {k \in 1..Len(r.details) :
        /\ r.details[k][1] \in {"WARN", "FAIL"}
        /\ ~(r.details[k][1] = "WARN"
             /\ \E label \in StructureLabels : r.details[k][2] = "Missing " \o label)}

\* What C10 says of the result r of the check of page
StructureOnlyWarns(r, page) ==
    /\ \A label \in StructureLabels :
          /\ Cardinality({k \in 1..Len(r.details) :
                            r.details[k] = <<"WARN", "Missing " \o label>>})
                = (IF Lacks(page, label) THEN 1 ELSE 0)
          /\ \A k \in 1..Len(r.details) : r.details[k] # <<"FAIL", "Missing " \o label>>
    /\ ((\E label \in StructureLabels : Lacks(page, label)) /\ OtherDefects(r) = {}) =>
          /\ r.status = "WARN"
          /\ (pc = "done"
              /\ \A i \in 1..Len(report.results) :
                    report.results[i].name # r.name => report.results[i].status # "FAIL")
             => exitStatus = 0

\* C10: for every page that exists and is not empty, each missing structural
\* element adds exactly one WARN detail and no FAIL detail, and a page with no
\* other defect ends WARN and leaves the exit status 0.
C10_StructureNeverFatal ==
    /\ (start.mainIndex.exists /\ start.mainIndex.kind = "text") =>
          \A i \in ResultsNamed("Main index.html") :
             StructureOnlyWarns(report.results[i], start.mainIndex)
    /\ \A d \in dirs :
          (start.pages[d].exists /\ start.pages[d].kind = "text") =>
             \A i \in ResultsNamed("Page: " \o d) :
                StructureOnlyWarns(report.results[i], start.pages[d])

\* C10 for the pages the parser reads to the end
C10_ParsedPages ==
    /\ (start.mainIndex.exists /\ start.mainIndex.kind = "text") =>
          \A i \in ResultsNamed("Main index.html") :
             StructureOnlyWarns(report.results[i], start.mainIndex)
    /\ \A d \in dirs :
          (start.pages[d].exists /\ start.pages[d].kind = "text"
           /\ ~start.pages[d].parseError) =>
             \A i \in ResultsNamed("Page: " \o d) :
                StructureOnlyWarns(report.results[i], start.pages[d])

-----------------------------------------------------------------------------
(* C4: an empty manifest over three runs *)

IsEmptyManifest(f) == f.projDir /\ f.manifest.exists /\ f.manifest.kind \in {"zero", "blank"}

\* The manifest of f is an array with one entry for each content directory,
\* for its index.html
IsSynthesized(f) ==
    LET m == f.manifest
    IN  /\ m.exists /\ m.kind = "text" /\ m.lb /\ m.rb /\ ~m.tc
        /\ Len(m.items) = Cardinality(f.dirs)
        /\ {m.items[i].file : i \in 1..Len(m.items)} = {d \o "/index.html" : d \in f.dirs}
        /\ \A i \in 1..Len(m.items) : m.items[i].kind = "obj" /\ m.items[i].hasName

\* Runs k, k+1, k+2 have ended: k without --fix on an empty manifest, k+1
\* with --fix on the same filesystem
RepairChain(k) ==
    /\ k + 2 <= Len(hist)
    /\ ~hist[k].args.fix
    /\ IsEmptyManifest(hist[k].start)
    /\ hist[k + 1].args.fix
    /\ hist[k + 1].start = hist[k].start

-----------------------------------------------------------------------------
(* C3: the page fix, and the run after it *)

\* The page of d was missing or empty when the run that found f started
NoContent(f, d) == d \in f.dirs /\ (~f.pages[d].exists \/ f.pages[d].kind # "text")

PageResult(d) == report.results[Min(ResultsNamed("Page: " \o d))]

PageChecked(d) == ResultsNamed("Page: " \o d) # {}

\* A run with --fix that finds the page of d missing or empty ends its check
\* FIXED and writes the placeholder
FixedByThisRun ==
    \A d \in dirs :
        (args.fix /\ NoContent(start, d) /\ PageChecked(d)) =>
            /\ PageResult(d).status = "FIXED"
            /\ pages[d] = PlaceholderPage

\* The first run, with --fix, found the page of d missing or empty and ended
\* its check FIXED; the second run has checked the page
CheckedAfterFix(d) ==
    /\ runs = 2
    /\ hist[1].args.fix
    /\ NoContent(hist[1].start, d)
    /\ ("Page: " \o d) \in hist[1].fixedChecks
    /\ PageChecked(d)

\* C3 as stated: the run with --fix ends the check FIXED and writes the
\* placeholder; the run after it ends the check PASS and applies no fix.
C3_SecondRunPasses ==
    /\ FixedByThisRun
    /\ \A d \in dirs :
          CheckedAfterFix(d) =>
              /\ PageResult(d).status = "PASS"
              /\ DetailsAt(PageResult(d), "FIXED") = {}
              /\ pages[d] = start.pages[d]

\* C3, amended: the run after the fix applies no fix and adds no WARN; it
\* ends the check PASS when the request for the page's URL is answered 200,
\* and FAIL, with that one FAIL detail, when it is not.
C3_SecondRunNoFix ==
    /\ FixedByThisRun
    /\ \A d \in dirs :
          CheckedAfterFix(d) =>
              LET r == PageResult(d)
                  httpError == <<"FAIL", "HTTP error from " \o PROJECTS_URL \o d \o "/index.html">>
                  refused == \E k \in 1..Len(r.details) : r.details[k] = httpError
              IN  /\ r.status = (IF refused THEN "FAIL" ELSE "PASS")
                  /\ \A k \in 1..Len(r.details) :
                        r.details[k][1] \in {"FAIL", "WARN", "FIXED"} => r.details[k] = httpError
                  /\ pages[d] = start.pages[d]
                  /\ pages[d] = PlaceholderPage
                  /\ \E k \in 1..Len(probes) : probes[k] = PROJECTS_URL \o d \o "/index.html"

\* The second run has ended, and the check of a page the first run replaced
\* an empty file of has ended PASS
C3_Witness ==
    /\ pc = "done"
    /\ \E d \in dirs :
          /\ CheckedAfterFix(d)
          /\ hist[1].start.pages[d].exists
          /\ PageResult(d).status = "PASS"

-----------------------------------------------------------------------------
(* C11: the details of the manifest's entries *)

\* The entries of the manifest the run found that are objects
ObjectEntries ==
    {i \in 1..Len(start.manifest.items) : start.manifest.items[i].kind = "obj"}

\* Those that name a file, and the path named
FileEntries ==
    {i \in ObjectEntries : /\ start.manifest.items[i].fileKind = "str"
                           /\ start.manifest.items[i].file # ""}

EntryPath(i) == PROJECTS_DIR \o "/" \o start.manifest.items[i].file

\* The number of details of the manifest result at level whose message
\* contains part
ManifestDetails(level, part) ==
    Cardinality({k \in DetailsAt(report.results[2], level) :
                    Contains(report.results[2].details[k][2], part)})

\* What C11 says, for the manifests in which covered(i) holds of every entry i
EntryDetails(covered(_)) ==
    (/\ ManifestChecked
     /\ json_loads(start.manifest).isList
     /\ start.projDir /\ start.manifest.exists /\ start.manifest.kind = "text"
     /\ \A i \in 1..Len(start.manifest.items) : covered(i)) =>
        /\ ManifestDetails("WARN", "missing 'name'")
              = Cardinality({i \in ObjectEntries : ~start.manifest.items[i].hasName})
        /\ ManifestDetails("WARN", "missing 'file'")
              = Cardinality({i \in ObjectEntries : start.manifest.items[i].fileKind = "absent"})
        /\ ManifestDetails("FAIL", "file not found")
              = Cardinality({i \in FileEntries : ~PathExists(start, EntryPath(i))})
        /\ ManifestDetails("FAIL", "file is empty")
              = Cardinality({i \in FileEntries : /\ PathExists(start, EntryPath(i))
                                                 /\ SizeIsZero(start, EntryPath(i))})
        /\ ManifestDetails("PASS", " OK")
              = (IF args.verbose
                 THEN Cardinality({i \in FileEntries : /\ PathExists(start, EntryPath(i))
                                                       /\ ~SizeIsZero(start, EntryPath(i))})
                 ELSE 0)

AnyEntry(i) == TRUE

FileIsNoNumber(i) == start.manifest.items[i].fileKind # "num"

\* C11: in an array manifest, each entry without name and each entry without
\* file adds a WARN detail, each entry whose file is not there adds a FAIL
\* detail, each entry whose file has 0 bytes adds the FAIL detail "file is
\* empty", and an entry whose file is there and not empty adds no FAIL or WARN
\* detail and a PASS detail only in verbose mode.
C11_EntryDetails == EntryDetails(AnyEntry)

\* C11 for the manifests without an entry whose file is a number
C11_TextFiles == EntryDetails(FileIsNoNumber)

-----------------------------------------------------------------------------
(* C12: the fix-action counter *)

\* The FIXED detail records in the report: result and position
FixedRecords ==
    UNION {{<<i, k>> : k \in DetailsAt(report.results[i], "FIXED")} :
              i \in 1..Len(report.results)}

FixedDetails == Cardinality(FixedRecords)

\* C12: every fix action has added one to the fix-action counter when its
\* check returns, so between the checks and at the end of the run the counter
\* is the number of FIXED detail records in the report.
C12_CounterIsFixedDetails == report.fixes_applied = FixedDetails

\* C12 for the fix actions other than the repair of a malformed manifest
C12_ExceptRepair ==
    report.fixes_applied =
        Cardinality({ik \in FixedRecords :
                        report.results[ik[1]].details[ik[2]][2] # "Repaired JSON"})

-----------------------------------------------------------------------------
(* C13: a page the parser fails on *)

WasRequested(url) == \E k \in 1..Len(probes) : probes[k] = url

\* The check of page left r after a parse failure: the failure is a WARN
\* detail, and the structure check and the request for url were made
ContinuedAfterParseError(r, page, url) ==
    /\ <<"WARN", "HTML parse error">> \in {r.details[k] : k \in 1..Len(r.details)}
    /\ r.status \in {"WARN", "FAIL"}
    /\ \A label \in StructureLabels :
          Lacks(page, label) =>
             <<"WARN", "Missing " \o label>> \in {r.details[k] : k \in 1..Len(r.details)}
    /\ WasRequested(url)

\* The main index is a page the parser fails on, and its check has continued
MainIndexContinues ==
    (start.mainIndex.exists /\ start.mainIndex.kind = "text" /\ start.mainIndex.parseError) =>
        \A i \in ResultsNamed("Main index.html") :
            ContinuedAfterParseError(report.results[i], start.mainIndex, BASE_URL)

\* C13: a parse failure on a page, main index or content page, adds a WARN
\* and the structure check and the request for the page's URL are still made;
\* the checks of later pages still run.
C13_ParseFailureContinues ==
    /\ MainIndexContinues
    /\ \A d \in dirs :
          (start.pages[d].exists /\ start.pages[d].kind = "text"
           /\ start.pages[d].parseError) =>
              \A i \in ResultsNamed("Page: " \o d) :
                  ContinuedAfterParseError(report.results[i], start.pages[d],
                                           PROJECTS_URL \o d \o "/index.html")
    /\ pc = "done" => \A d \in dirs : PageChecked(d)

\* C13 for the main index, and for the pages after a page the parser fails on
C13_MainIndexOnly ==
    /\ MainIndexContinues
    /\ pc = "done" => \A d \in dirs : PageChecked(d)

-----------------------------------------------------------------------------
(* C14: the repair of a malformed manifest *)

\* The manifest the run found has text that does not parse
IsMalformed(f) ==
    /\ f.projDir /\ f.manifest.exists /\ f.manifest.kind = "text"
    /\ ~json_loads(f.manifest).valid

\* Its text parses once a comma before the closing bracket is dropped and
\* the missing brackets are put around it
IsRepairable(f) ==
    LET m == f.manifest
    IN  ~(m.tc /\ ~m.rb)

\* C14: with --fix, a malformed manifest is rewritten only when the patched
\* text parses, and then the check ends FIXED and the file holds the parsed
\* entries; when the patched text does not parse, and whenever --fix is off,
\* the file is left as it was and the check ends FAIL.
C14_RepairAllOrNothing ==
    (IsMalformed(start) /\ ManifestChecked) =>
        IF args.fix /\ IsRepairable(start)
        THEN /\ report.results[2].status = "FIXED"
             /\ json_loads(manifest).valid /\ json_loads(manifest).isList
             /\ json_loads(manifest).data = start.manifest.items
        ELSE /\ report.results[2].status = "FAIL"
             /\ manifest = start.manifest

\* --fix was given, the manifest's text has a comma at its end and no closing
\* bracket, and the check has ended FAIL with the file as it was
C14_Witness ==
    /\ IsMalformed(start) /\ ManifestChecked
    /\ args.fix
    /\ start.manifest.tc /\ ~start.manifest.rb
    /\ report.results[2].status = "FAIL"
    /\ <<"FAIL", "Could not auto-repair JSON">> \in DetailsOf("index.json validation")
    /\ manifest = start.manifest

-----------------------------------------------------------------------------
(* C15: the counts of the report *)

WithStatus(status) == {i \in 1..Len(report.results) : report.results[i].status = status}

\* C15: passed, failed, warnings and fixed are the numbers of results with
\* status PASS, FAIL, WARN and FIXED; every status is one of the four; so
\* total is their sum.
C15_Counts ==
    /\ passed(report) = Cardinality(WithStatus("PASS"))
    /\ failed(report) = Cardinality(WithStatus("FAIL"))
    /\ warnings(report) = Cardinality(WithStatus("WARN"))
    /\ fixedCount(report) = Cardinality(WithStatus("FIXED"))
    /\ \A i \in 1..Len(report.results) :
          report.results[i].status \in {"PASS", "FAIL", "WARN", "FIXED"}
    /\ total(report) = passed(report) + failed(report) + warnings(report) + fixedCount(report)

\* A run has ended with results of three statuses, two of them FIXED
C15_Witness ==
    /\ pc = "done"
    /\ total(report) = 4
    /\ passed(report) = 1
    /\ failed(report) = 1
    /\ fixedCount(report) = 2

-----------------------------------------------------------------------------
(* C16: the asset references of a page *)

\* The asset references in the start tags of page that have a text: type
\* and reference
AssetRefsOf(page) ==
    {<<"css", page.tags[i].href>> :
        i \in {j \in 1..Len(page.tags) :
                 /\ page.tags[j].tag = "link" /\ page.tags[j].rel = "stylesheet"
                 /\ page.tags[j].href # ""}}
    \cup {<<IF page.tags[i].tag = "script" THEN "js" ELSE "img", page.tags[i].src>> :
            i \in {j \in 1..Len(page.tags) :
                     /\ page.tags[j].tag \in {"script", "img"}
                     /\ page.tags[j].hasSrc /\ page.tags[j].srcIsText}}

\* The details of the result of d that are about the asset a
AssetDetails(d, a) ==
    {dt \in DetailsOf("Page: " \o d) :
        \E w \in {"Asset OK ", "Unreachable asset ", "Missing local asset "} :
            dt[2] = w \o "(" \o a[1] \o "): " \o a[2]}

\* What C16 says of the asset a of the page of d
AssetGraded(d, a) ==
    LET ref == a[2]
        inline == \E p \in {"data:", "blob:"} : StartsWith(ref, p)
        external == \E p \in {"http://", "https://", "//"} : StartsWith(ref, p)
        url == IF StartsWith(ref, "//") THEN "http:" \o ref ELSE ref
        there == PathExists(start, LocalTarget(ref, PROJECTS_DIR \o "/" \o d))
    IN  IF inline THEN AssetDetails(d, a) = {} /\ ~WasRequested(ref)
        ELSE IF external
        THEN /\ WasRequested(url)
             /\ \A dt \in AssetDetails(d, a) : dt[1] # "FAIL"
        ELSE ~there => \E dt \in AssetDetails(d, a) : dt[1] = "FAIL"

\* What C16 says, for the pages that covered holds of
AssetsGraded(covered(_)) ==
    \A d \in dirs :
        (start.pages[d].exists /\ start.pages[d].kind = "text"
         /\ covered(start.pages[d]) /\ RunEnded) =>
            \A a \in AssetRefsOf(start.pages[d]) : AssetGraded(d, a)

AnyPage(page) == TRUE

\* The parser reads page to the end, and every src in it has a value
ParsedWithValues(page) ==
    /\ ~page.parseError
    /\ \A i \in 1..Len(page.tags) : page.tags[i].srcIsText

\* C16: for every asset reference of a page, when the run has ended: a
\* data: or blob: reference has no request and no detail; an external one was
\* requested and has no FAIL detail; a local one that names no existing file
\* has a FAIL detail.
C16_AssetsGraded == AssetsGraded(AnyPage)

\* C16 for the pages that are parsed to the end and have a value for every src
C16_ParsedWithValues == AssetsGraded(ParsedWithValues)

-----------------------------------------------------------------------------
(* C17: the relative and root-relative links of a page *)

\* The links of page that name no host
LocalLinksOf(page) ==
    {h \in LinksOf(page) :
        /\ h # ""
        /\ \A p \in {"#", "mailto:", "javascript:", "tel:", "http://", "https://", "//"} :
              ~StartsWith(h, p)}

\* The path a link of the page of d names: below the site root or the
\* page's directory, without query and fragment
LinkPath(d, href) ==
    LET whole == IF StartsWith(href, "/") THEN PUBLIC_DIR \o href
                 ELSE PROJECTS_DIR \o "/" \o d \o "/" \o href
    IN  Resolved(start, SplitFirst(SplitFirst(whole, "?"), "#"))

HasBrokenDetail(d, href) ==
    <<"FAIL", "Broken internal link: " \o href>> \in DetailsOf("Page: " \o d)

\* What C17 says, for the pages that covered holds of, with accepted(path)
\* the targets that are not broken
LocalLinksChecked(covered(_), accepted(_)) ==
    \A d \in dirs :
        (start.pages[d].exists /\ start.pages[d].kind = "text"
         /\ covered(start.pages[d]) /\ RunEnded) =>
            \A href \in LocalLinksOf(start.pages[d]) :
                /\ HasBrokenDetail(d, href) <=> ~accepted(LinkPath(d, href))
                /\ ~WasRequested(href)

\* The path is an existing file, or a directory with an index.html in it
FileOrIndexedDirectory(path) ==
    \/ IsFilePath(start, path)
    \/ IsDirPath(start, path) /\ IsFilePath(start, path \o "/index.html")

\* The path is an existing file or directory
FileOrDirectory(path) == IsFilePath(start, path) \/ IsDirPath(start, path)

ParsedPage(page) == ~page.parseError

\* C17: a relative or root-relative link has the FAIL detail "broken
\* internal link" exactly when, query and fragment removed, it names neither
\* an existing file nor a directory that holds an index.html; no request is
\* made for it.
C17_BrokenInternalLinks == LocalLinksChecked(AnyPage, FileOrIndexedDirectory)

\* With every existing directory accepted, for the pages parsed to the end
C17_ExistingPaths == LocalLinksChecked(ParsedPage, FileOrDirectory)

\* C17 for the pages parsed to the end whose links name no directory
C17_NoDirectories ==
    \A d \in dirs :
        (start.pages[d].exists /\ start.pages[d].kind = "text"
         /\ ~start.pages[d].parseError /\ RunEnded) =>
            \A href \in LocalLinksOf(start.pages[d]) :
                ~IsDirPath(start, LinkPath(d, href)) =>
                    /\ HasBrokenDetail(d, href) <=> ~FileOrIndexedDirectory(LinkPath(d, href))
                    /\ ~WasRequested(href)

-----------------------------------------------------------------------------
(* Network failures (C18) *)

PageUrlOf(d) == PROJECTS_URL \o d \o "/index.html"

\* The URL requested for the asset reference ref
AssetUrl(ref) == IF StartsWith(ref, "//") THEN "http:" \o ref ELSE ref

MainProbed == start.mainIndex.exists /\ start.mainIndex.kind = "text"

Failed(r, msg) ==
    /\ <<"FAIL", msg>> \in {r.details[i] : i \in 1..Len(r.details)}
    /\ r.status = "FAIL"

OnlyWarned(r, msg) ==
    /\ <<"WARN", msg>> \in {r.details[i] : i \in 1..Len(r.details)}
    /\ <<"FAIL", msg>> \notin {r.details[i] : i \in 1..Len(r.details)}

\* What C18 says of the k-th call of http_get of the run, when it does not
\* return 200
ProbeGraded(k) ==
    LET url == answers[k][1]
    IN  IF k = 1 /\ MainProbed
        THEN Failed(report.results[1], "HTTP error from " \o BASE_URL)
        ELSE \E d \in dirs :
                /\ PageChecked(d)
                /\ IF url = PageUrlOf(d)
                   THEN Failed(PageResult(d), "HTTP error from " \o url)
                   ELSE IF url \in LinksOf(start.pages[d])
                   THEN Failed(PageResult(d), "Broken link: " \o url)
                   ELSE \E a \in AssetRefsOf(start.pages[d]) :
                           /\ url = AssetUrl(a[2])
                           /\ OnlyWarned(PageResult(d),
                                         "Unreachable asset (" \o a[1] \o "): " \o a[2])

\* The k-th call of the run is for the page of d or for one of its links
OwnProbe(d, k) ==
    answers[k][1] = PageUrlOf(d) \/ answers[k][1] \in LinksOf(start.pages[d])

\* The call did not return 200
NotReturned200(reply) == Returned(reply) # 200

\* What C18 says, with bad(reply) telling which probes count as failed
Graded(bad(_)) ==
    /\ \A k \in 1..Len(answers) : bad(answers[k][2]) => ProbeGraded(k)
    /\ \A d \in dirs : (PageChecked(d) /\ PageResult(d).status = "FAIL") =>
          \/ \E h \in LocalLinksOf(start.pages[d]) : HasBrokenDetail(d, h)
          \/ \E k \in 2..Len(answers) : bad(answers[k][2]) /\ OwnProbe(d, k)

\* C18: a probe of the main index's or a page's own URL, or of a link to an
\* own host, that fails or returns a status other than 200 adds a FAIL
\* detail and leaves the check's status FAIL; such a probe of an external
\* asset adds a WARN detail only, and the page's status is FAIL only when one
\* of the former failed or a local link is broken.
C18_NetworkFailuresGraded == Graded(NotReturned200)

\* The run has ended; the main index's own URL failed and its check is FAIL;
\* the page's own URL answered 200, an external asset of it did not, and its
\* check is WARN
C18_Witness ==
    /\ pc = "done"
    /\ Len(answers) >= 3
    /\ answers[1] = <<BASE_URL, <<-1>>>> /\ report.results[1].status = "FAIL"
    /\ answers[2] = <<PageUrlOf("item-1"), <<200>>>>
    /\ \E k \in 3..Len(answers) : answers[k] = <<CdnImage, <<404>>>>
    /\ PageResult("item-1").status = "WARN"

-----------------------------------------------------------------------------
(* No retries (C19) *)

\* The tag is a link that is requested: absolute, and taken for an own one
IsProbedLink(t) == t.tag = "a" /\ IsSchemeAbsolute(t.href) /\ IsOwnLink(t.href)

\* The tag is an asset that is requested: a src with a scheme or a host
IsProbedAsset(t) ==
    t.tag \in {"script", "img"} /\ t.hasSrc /\ t.srcIsText /\ IsSchemeAbsolute(t.src)

\* The URLs http_get is to be called with for page, one per occurrence: the
\* page's own, its links to own hosts, its external assets
ExpectedCalls(d, page) ==
    LET ls == SelectSeq(page.tags, IsProbedLink)
        as == SelectSeq(page.tags, IsProbedAsset)
    IN  <<PageUrlOf(d)>> \o [i \in 1..Len(ls) |-> ls[i].href]
                         \o [i \in 1..Len(as) |-> AssetUrl(as[i].src)]

\* The URLs http_get was called with, in order
CalledUrls == [k \in 1..Len(answers) |-> answers[k][1]]

\* How often r has the detail
Times(r, detail) == Cardinality({i \in 1..Len(r.details) : r.details[i] = detail})

\* The detail that records the probe of url by the check of d as unreachable
UnreachableDetail(d, url) ==
    IF url = PageUrlOf(d) THEN <<"FAIL", "HTTP error from " \o url>>
    ELSE IF url \in LinksOf(start.pages[d]) THEN <<"FAIL", "Broken link: " \o url>>
    ELSE <<"WARN", "Unreachable asset (img): " \o url>>

\* Every reference occurrence of the checked pages caused one call of
\* http_get, and no check has two results
OneCallEach ==
    /\ \A d \in dirs : PageChecked(d) =>
          CalledUrls = <<BASE_URL>> \o ExpectedCalls(d, start.pages[d])
    /\ \A i, j \in 1..Len(report.results) :
          report.results[i].name = report.results[j].name => i = j

\* The probes of url by the check of d are recorded as unreachable as often
\* as bad holds of what their GETs received
RecordedUnreachable(d, url, bad(_)) ==
    Times(PageResult(d), UnreachableDetail(d, url))
        = Cardinality({k \in 2..Len(answers) : answers[k][1] = url /\ bad(answers[k][2])})

\* The first GET of the call did not receive 200, or nothing was sent
FirstNot200(reply) == reply = <<>> \/ reply[1] # 200

\* C19: every probed reference occurrence (page URL, own-host link, external
\* asset) causes one call of http_get and the call one GET; the probe is
\* recorded as unreachable exactly when that GET's status is not 200; and no
\* check has two results in one run.
C19_NoRetries ==
    /\ OneCallEach
    /\ \A k \in 1..Len(answers) : Len(answers[k][2]) = 1
    /\ \A d \in dirs : PageChecked(d) =>
          \A url \in {CalledUrls[k] : k \in 2..Len(answers)} :
              RecordedUnreachable(d, url, FirstNot200)

\* What holds of it: one call per occurrence, no check twice, and a probe
\* recorded as unreachable exactly when its call does not return 200
C19_OneCallPerOccurrence ==
    /\ OneCallEach
    /\ \A d \in dirs : PageChecked(d) =>
          \A url \in {CalledUrls[k] : k \in 2..Len(answers)} :
              RecordedUnreachable(d, url, NotReturned200)

-----------------------------------------------------------------------------
(* The manifest cross-check (C20) *)

\* The manifest of f is there and parses as an array
IsArrayManifest(f) ==
    /\ f.projDir /\ f.manifest.exists /\ f.manifest.kind = "text"
    /\ json_loads(f.manifest).isList

\* The content directories of f that are the first path segment of no
\* entry's file
UnreferencedIn(f) ==
    {d \in f.dirs :
        \A i \in 1..Len(f.manifest.items) : ~StartsWith(f.manifest.items[i].file, d \o "/")}

OrphanWarn(d) == <<"WARN", "Directory '" \o d \o "' exists but has no index.json entry">>

AddedFixed(d) == <<"FIXED", "Added '" \o d \o "' to index.json">>

ManifestDetailSet == {report.results[2].details[i] : i \in 1..Len(report.results[2].details)}

\* The manifest file is the array the run found with one placeholder entry
\* appended for each directory of ds, and nothing else
AppendedFor(ds) ==
    LET old == start.manifest.items
        new == manifest.items
    IN  /\ IsArrayManifest(FS)
        /\ Len(new) = Len(old) + Cardinality(ds)
        /\ SubSeq(new, 1, Len(old)) = old
        /\ \A d \in ds :
              Cardinality({i \in 1..Len(new) : new[i] = PlaceholderEntry(d)}) = 1

\* What C20 says of the array manifests that covered holds of
CrossChecked(covered(_)) ==
    /\ (ManifestChecked /\ IsArrayManifest(start) /\ covered(start.manifest)) =>
          /\ \A d \in UnreferencedIn(start) : OrphanWarn(d) \in ManifestDetailSet
          /\ args.fix =>
                /\ AppendedFor(UnreferencedIn(start))
                /\ \A d \in UnreferencedIn(start) :
                      /\ AddedFixed(d) \in ManifestDetailSet
                      /\ report.results[2].status = "FIXED"
          /\ ~args.fix => manifest = start.manifest
    /\ (/\ runs = 2 /\ ManifestChecked
        /\ hist[1].args.fix
        /\ IsArrayManifest(hist[1].start) /\ covered(hist[1].start.manifest)) =>
          \A d \in UnreferencedIn(hist[1].start) :
              /\ OrphanWarn(d) \notin ManifestDetailSet
              /\ AddedFixed(d) \notin ManifestDetailSet

AnyManifest(m) == TRUE

\* Every entry is an object whose file, if it has one, is a text
ObjectsWithTextFiles(m) ==
    \A i \in 1..Len(m.items) : m.items[i].kind = "obj" /\ m.items[i].fileKind # "num"

\* C20: the manifest check of an array manifest adds a WARN detail for every
\* content directory that is the first path segment of no entry's file; with
\* --fix it appends one placeholder entry for that directory's page, writes
\* the manifest and records FIXED, and the next run's manifest check has
\* neither that WARN nor that FIXED detail; without --fix it leaves the
\* manifest file as it was.
C20_CrossCheck == CrossChecked(AnyManifest)

\* What holds of it: C20 for the arrays of objects whose files are texts
C20_ArraysOfObjects == CrossChecked(ObjectsWithTextFiles)

\* Reached: the second run has checked the manifest that the first run, with
\* --fix, appended entries for two directories to
C20_SecondRunReached ==
    /\ runs = 2 /\ ManifestChecked
    /\ hist[1].args.fix
    /\ IsArrayManifest(hist[1].start)
    /\ Cardinality(UnreferencedIn(hist[1].start)) = 2
    /\ Len(manifest.items) = 2

-----------------------------------------------------------------------------
(* Missing resources (C21) *)

\* The detail records a missing resource: an entry's file that is not there
\* or empty, a local asset that is not there, a broken internal link
IsMissingResource(dt) ==
    /\ dt[1] = "FAIL"
    /\ \/ Contains(dt[2], "file not found: ")
       \/ Contains(dt[2], "file is empty: ")
       \/ StartsWith(dt[2], "Missing local asset ")
       \/ StartsWith(dt[2], "Broken internal link: ")

FoundMissingResource(r) == \E k \in 1..Len(r.details) : IsMissingResource(r.details[k])

\* What C21 says of the runs that covered holds of the options of
MissingResourceFails(covered(_)) ==
    covered(args) =>
        \A i \in 1..Len(report.results) :
            FoundMissingResource(report.results[i]) =>
                /\ report.results[i].status = "FAIL"
                /\ RunEnded => exitStatus = 1

AnyArgs(a) == TRUE

WithoutFix(a) == ~a.fix

\* C21: a check that found a missing resource (an entry whose file is
\* missing or empty, a missing local asset, a broken internal link) ends FAIL,
\* and the run's exit status is 1, with and without --fix.
C21_MissingResourceFails == MissingResourceFails(AnyArgs)

\* What holds of it: C21 for the runs without --fix
C21_WithoutFix == MissingResourceFails(WithoutFix)

-----------------------------------------------------------------------------
(* Manifest synthesis (C22) *)

\* The manifest of f is absent, or its text is empty when trimmed
NoManifestText(f) == ~(f.projDir /\ f.manifest.exists) \/ f.manifest.kind # "text"

\* The directory entry e is a placeholder for: its file is that directory's page
DirOf(e) == SplitFirst(e.file, "/")

\* The manifest file is an array with one entry, with name and file, for the
\* page of each content directory, and no other, the directories in natural
\* sort order
SynthesizedInOrder ==
    LET items == manifest.items
    IN  /\ IsArrayManifest(FS)
        /\ Len(items) = Cardinality(dirs)
        /\ \A i \in 1..Len(items) :
              /\ items[i].kind = "obj" /\ items[i].hasName /\ items[i].fileKind = "str"
              /\ DirOf(items[i]) \in dirs
              /\ items[i].file = DirOf(items[i]) \o "/index.html"
        /\ \A d \in dirs : Cardinality({i \in 1..Len(items) : DirOf(items[i]) = d}) = 1
        /\ \A i, j \in 1..Len(items) :
              i < j => NumberAwareLess(DirOf(items[i]), DirOf(items[j]))

\* C22: the manifest check of a manifest that is absent or empty when trimmed
\* records a FAIL detail; with --fix it writes an array with exactly one
\* placeholder entry, with name and file, per content directory, in natural
\* sort order of the directory names, and records FIXED.
C22_Synthesis ==
    (ManifestChecked /\ NoManifestText(start)) =>
        /\ report.results[2].details[1][1] = "FAIL"
        /\ args.fix =>
              /\ SynthesizedInOrder
              /\ report.results[2].status = "FIXED"
              /\ DetailsAt(report.results[2], "FIXED") # {}

\* A run with --fix has checked a manifest that was not there, beside the
\* directories item-10 and item-2, and the first entry is item-2's
C22_Witness ==
    /\ ManifestChecked /\ args.fix
    /\ start.projDir /\ ~start.manifest.exists
    /\ dirs = {"item-2", "item-10"}
    /\ manifest.items[1].file = "item-2/index.html"
    /\ manifest.items[2].file = "item-10/index.html"

-----------------------------------------------------------------------------
(* The life of a CheckResult (C23) *)

\* r2 is r1 after one detail-emission call
OneMoreDetail(r1, r2) ==
    /\ r2.name = r1.name /\ r2.category = r1.category
    /\ Len(r2.details) = Len(r1.details) + 1
    /\ SubSeq(r2.details, 1, Len(r1.details)) = r1.details

\* C23 as stated: a result that is in the report is no longer changed.
C23_ImmutableOnceAppended ==
    [][\A i \in 1..Len(report.results) :
          /\ i <= Len(report'.results)
          /\ report'.results[i] = report.results[i]]_vars

\* C23, amended: a result is created once per check and is in the report from
\* its creation on, with status PASS and no details; it is changed only while
\* its own check executes, each time by one more detail; once its check has
\* returned it is no longer changed.
C23_ChangedOnlyByOwnCheck ==
    [][/\ \A i \in 1..Len(report.results) :
             /\ i <= Len(report'.results)
             /\ report'.results[i] # report.results[i] =>
                   /\ pc = "check" /\ i = Len(report.results)
                   /\ OneMoreDetail(report.results[i], report'.results[i])
       /\ Len(report'.results) # Len(report.results) =>
             /\ pc = "idle" /\ pc' = "check"
             /\ Len(report'.results) = Len(report.results) + 1
             /\ report'.results[Len(report'.results)].status = "PASS"
             /\ report'.results[Len(report'.results)].details = <<>>
             /\ \A i \in 1..Len(report.results) :
                   report.results[i].name # report'.results[Len(report'.results)].name]_vars

\* Two checks have returned; the first result, appended with status PASS and
\* no details, has two details and status FAIL, the second one detail
C23_Witness ==
    /\ pc = "idle"
    /\ Len(report.results) = 2
    /\ Len(report.results[1].details) = 2 /\ report.results[1].status = "FAIL"
    /\ Len(report.results[2].details) = 1

-----------------------------------------------------------------------------
(* Fix convergence (C24) *)

\* The run before the current one
PreviousRun == hist[runs - 1]

\* The current run follows a run with --fix that completed and that covered
\* holds of the filesystem of, and has --fix too
FollowsFix(covered(_)) ==
    /\ runs >= 2
    /\ args.fix
    /\ PreviousRun.args.fix /\ ~PreviousRun.crashed
    /\ covered(PreviousRun.start)

\* The current run has applied no fix and written no file
NothingFixed ==
    /\ report.fixes_applied = 0
    /\ FixedRecords = {}
    /\ \A i \in 1..Len(report.results) : report.results[i].status # "FIXED"
    /\ FS = start

AnyFilesystem(f) == TRUE

NotMalformed(f) == ~IsMalformed(f)

\* C24: a run with --fix that follows a completed run with --fix on the
\* filesystem that run left applies no fix action, has no FIXED result or
\* detail, and writes neither the manifest nor a page, whatever defect the
\* first run found, a malformed manifest included.
C24_SecondFixRunIdle == FollowsFix(AnyFilesystem) => NothingFixed

\* What holds of it: C24 when the first run did not find a malformed manifest
C24_UnlessMalformed == FollowsFix(NotMalformed) => NothingFixed

\* Reached: the second run with --fix has ended, after a first one that
\* found no manifest and two directories without pages
C24_SecondRunEnded ==
    /\ FollowsFix(NotMalformed) /\ pc = "done"
    /\ ~PreviousRun.start.manifest.exists
    /\ Cardinality(dirs) = 2
    /\ \A d \in dirs : ~PreviousRun.start.pages[d].exists

-----------------------------------------------------------------------------
(* Runs without --fix (C25) *)

\* C25: at every point of a run without --fix, the manifest and every page
\* are as the run found them, the fix-action counter is 0, and no result has
\* status FIXED or a FIXED detail, whatever defects the run finds.
C25_NoFixNoWrite == ~args.fix => NothingFixed

\* A run without --fix has ended with exit status 1: it found a manifest of
\* 0 bytes and a directory without page
C25_Witness ==
    /\ ~args.fix /\ pc = "done" /\ exitStatus = 1
    /\ start.projDir /\ start.manifest.exists /\ start.manifest.kind = "zero"
    /\ \E d \in dirs : ~start.pages[d].exists

-----------------------------------------------------------------------------
(* Status and details of a CheckResult (C26) *)

\* The position of the last detail record of r at level, 0 when there is none
LastAt(r, level) ==
    IF DetailsAt(r, level) = {} THEN 0
    ELSE CHOOSE i \in DetailsAt(r, level) : \A j \in DetailsAt(r, level) : j <= i

\* What C26 says of the result r
Consistent(r) ==
    /\ r.status \in {"PASS", "WARN", "FAIL", "FIXED"}
    /\ r.status = "PASS" =>
          \A lv \in {"FAIL", "WARN", "FIXED"} : DetailsAt(r, lv) = {}
    /\ r.status = "WARN" =>
          /\ DetailsAt(r, "WARN") # {}
          /\ DetailsAt(r, "FAIL") = {} /\ DetailsAt(r, "FIXED") = {}
    /\ r.status = "FAIL" =>
          /\ DetailsAt(r, "FAIL") # {}
          /\ LastAt(r, "FIXED") < LastAt(r, "FAIL")
    /\ r.status = "FIXED" =>
          /\ DetailsAt(r, "FIXED") # {}
          /\ LastAt(r, "FAIL") < LastAt(r, "FIXED")

\* C26: after any sequence of calls, a CheckResult with status PASS has no
\* FAIL, WARN or FIXED record; one with status WARN has a WARN record and no
\* FAIL or FIXED record; one with status FAIL has a FAIL record and no FIXED
\* record after the last of them; one with status FIXED has a FIXED record
\* and no FAIL record after the last of them.
C26_StatusMatchesDetails == Consistent(cr)

\* fail, fixed, fail and warn were called, in this order, and the status is FAIL
C26_Witness ==
    /\ Len(cr.details) = 4
    /\ [k \in 1..4 |-> cr.details[k][1]] = <<"FAIL", "FIXED", "FAIL", "WARN">>
    /\ cr.status = "FAIL"

\* The same of every result in the report of a run
C26_InRuns == \A i \in 1..Len(report.results) : Consistent(report.results[i])

-----------------------------------------------------------------------------
(* The pages a run writes (C27) *)

\* C27: at every point of a run, a page that differs from what the run found
\* is the placeholder, written by a run with --fix for a directory whose page
\* was missing or empty when trimmed; a page with other text is as the run
\* found it, whatever its defects.
C27_OnlyPlaceholders ==
    \A d \in dirs :
        /\ pages[d] # start.pages[d] =>
              /\ args.fix /\ NoContent(start, d)
              /\ pages[d] = PlaceholderPage
        /\ (start.pages[d].exists /\ start.pages[d].kind = "text") =>
              pages[d] = start.pages[d]

\* A run with --fix has ended: it left the page with defects as it was, its
\* check FAIL, and wrote the placeholder where only white space was
C27_Witness ==
    /\ args.fix /\ pc = "done" /\ runs = 1
    /\ dirs = {"item-2", "item-10"}
    /\ start.pages["item-2"] = DefectivePage /\ pages["item-2"] = DefectivePage
    /\ PageResult("item-2").status = "FAIL"
    /\ start.pages["item-10"] = BlankPage /\ pages["item-10"] = PlaceholderPage

-----------------------------------------------------------------------------
(* The orphan fix appends (C28) *)

\* What C28 says of the array manifests that covered holds of
OnlyAppended(covered(_)) ==
    (args.fix /\ ManifestChecked /\ IsArrayManifest(start) /\ covered(start.manifest)) =>
        AppendedFor(UnreferencedIn(start))

\* C28: after the manifest check of a run with --fix on a manifest that
\* parses as an array, the manifest file holds the entries it held, unchanged
\* and in their order, followed by exactly one new entry for each directory
\* without entry, and nothing else.
C28_OnlyAppends == OnlyAppended(AnyManifest)

\* What holds of it: C28 for the arrays of objects whose files are texts
C28_ArraysOfObjects == OnlyAppended(ObjectsWithTextFiles)

\* Reached: a run with --fix has checked an array with two entries, none of
\* them for the directory item-2, and the file has three entries
C28_Appended ==
    /\ args.fix /\ ManifestChecked /\ IsArrayManifest(start)
    /\ Len(start.manifest.items) = 2
    /\ UnreferencedIn(start) = {"item-2"}
    /\ Len(manifest.items) = 3

-----------------------------------------------------------------------------
(* The verbose option (C29) *)

IsGradedDetail(dt) == dt[1] \in {"FAIL", "WARN", "FIXED"}

\* What of a result does not depend on PASS and INFO records
Outcome(r) ==
    [name |-> r.name, category |-> r.category, status |-> r.status,
     details |-> SelectSeq(r.details, IsGradedDetail)]

\* The main index check with and without --verbose, the same answers given
MainIndexAlike ==
    \A ans \in [1..MainRequests -> net] :
        LET v == check_main_index(FS, TRUE, ans)
            q == check_main_index(FS, FALSE, ans)
        IN  /\ Outcome(v.r) = Outcome(q.r)
            /\ v.calls = q.calls /\ v.urls = q.urls /\ v.raised = q.raised

\* The manifest check with and without --verbose
ManifestAlike ==
    \A order \in NaturalOrders(dirs) :
        LET v == check_index_json(FS, TRUE, args.fix, order)
            q == check_index_json(FS, FALSE, args.fix, order)
        IN  /\ Outcome(v.r) = Outcome(q.r)
            /\ v.manifest = q.manifest /\ v.projDir = q.projDir
            /\ v.fixes = q.fixes /\ v.crashed = q.crashed

\* The check of the page of d with and without --verbose, the same answers given
PageAlike(d) ==
    \A ans \in [1..PageRequests(d) -> net] :
        LET v == check_page(FS, d, TRUE, args.fix, ans)
            q == check_page(FS, d, FALSE, args.fix, ans)
        IN  /\ Outcome(v.st.r) = Outcome(q.st.r)
            /\ v.page = q.page /\ v.fixes = q.fixes
            /\ v.st.calls = q.st.calls /\ v.st.urls = q.st.urls
            /\ v.st.raised = q.st.raised

\* C29: whatever check a run is about to make, on the same filesystem and
\* with the same answers to its requests the check gives with and without
\* --verbose the same result but for PASS and INFO records (name, status,
\* FAIL, WARN and FIXED records in order), makes the same requests, applies
\* the same fixes, writes the same files and ends the same way; so the runs
\* have the same results, counts and exit status.
C29_VerboseNeutral ==
    /\ pc = "main" => MainIndexAlike
    /\ pc = "manifest" => ManifestAlike
    /\ (pc = "page" /\ todo # <<>>) => PageAlike(Head(todo))
    /\ pc = "done" => exitStatus = exit_code([report EXCEPT !.results =
                          [i \in 1..Len(report.results) |-> Outcome(report.results[i])]])

\* A run with --verbose has ended; the page's result has PASS records for its
\* structure and for a link, and a FAIL record for another link
C29_Witness ==
    /\ args.verbose /\ pc = "done"
    /\ PageChecked("item-1")
    /\ <<"PASS", "Has <body> tag">> \in DetailsOf("Page: item-1")
    /\ <<"PASS", "Link OK: /style.css">> \in DetailsOf("Page: item-1")
    /\ <<"FAIL", "Broken internal link: missing.html">> \in DetailsOf("Page: item-1")

=============================================================================
